---- MODULE Spec2Model ----
(***************************************************************************)
(* Model of src/soccer_bot.py: the referral-code store, the TTL caches,    *)
(* the authorization gate (require_auth), the rate limiter and the command *)
(* handlers of the Telegram bot.                                           *)
(*                                                                         *)
(* Handlers are coroutines on one event loop (concurrent_updates(True)):   *)
(* they interleave only at an await.  Every database and cache call of the *)
(* program is synchronous, so the code of a handler up to its first        *)
(* `await update.message.reply_text(...)` is one atomic step.  The only    *)
(* handler that changes state after an await is handle_message (it spawns  *)
(* the save_conversation task after the reply).                            *)
(*                                                                         *)
(* Time is in seconds; `now` stands for both time.time() and               *)
(* datetime.utcnow().                                                      *)
(***************************************************************************)
EXTENDS Integers, Sequences, FiniteSets, TLC

VARIABLES
    now,               \* the wall clock
    codes,             \* table referral_codes: token -> row
    users,             \* table users: telegram_id -> row
    attempts,          \* table unauthorized_attempts, in insertion order
    conversations,     \* table conversations: rows per telegram_id
    auth_cache,        \* auth_cache._cache: key -> [value, expiry]
    rate_limit_cache,  \* rate_limit_cache._cache: key -> [value, expiry]
    tasks,             \* handle_message coroutines past the gate, per caller
    last,              \* what the most recent step did and replied
    window_start,      \* history: when the fixed 60 s window of a caller began
    lock,              \* auth_cache._lock: "free" or the thread that holds it
    threads,           \* threads inside a SimpleCache method: where, and locals
    update_queue,      \* application.update_queue: updates fetched, not dispatched
    sending,           \* replies handed to reply_text that have not returned yet
    replied            \* history: the dispatched updates in the order their reply
                       \* was sent (sent) or their task ended without one

vars == <<now, codes, users, attempts, conversations, auth_cache,
          rate_limit_cache, tasks, last, window_start,
          lock, threads, update_queue, sending, replied>>

----------------------------------------------------------------------------
(* Identities and bounds                                                   *)

ADMIN_TELEGRAM_ID == "100"
Callers == {"100", "200", "300"}

\* length bound of the unauthorized_attempts table
MaxAttempts == 2
\* bound on the handle_message requests of one caller (stored or in flight)
MaxConversations == 1
\* the max_requests parameter of check_rate_limit (the call site passes the
\* default, 30); kept small so that the limit is reached
max_requests == 2
\* number of short clock steps taken after each whole day
MaxShortTicks == 4
\* number of whole days the clock runs
MaxDays == 1
\* the number in a duration text is at most this
MaxNum == 30
\* updates that arrive in a run of the dispatcher
MaxUpdates == 3
DaySeconds == 86400
AuthTTL == 60
RateTTL == 60
MessageCap == 500

\* a short clock step: half the rate-limit window
TickShort == RateTTL \div 2

Min(a, b) == IF a < b THEN a ELSE b

----------------------------------------------------------------------------
(* SimpleCache: a map key -> (value, expiry), passed explicitly            *)

\* a get that still returns the value at the expiry time itself
SimpleCache_hit_at_expiry(cache, key, t) ==
    key \in DOMAIN cache /\ t <= cache[key].expiry

\* get: is the entry present and unexpired
SimpleCache_hit(cache, key, t) ==
    key \in DOMAIN cache /\ t < cache[key].expiry

\* get: the backing map afterwards (a stale entry is deleted)
SimpleCache_get(cache, key, t) ==
    IF key \in DOMAIN cache /\ ~(t < cache[key].expiry)
    THEN [k \in DOMAIN cache \ {key} |-> cache[k]]
    ELSE cache

SimpleCache_set(cache, key, value, ttl, t) ==
    [k \in DOMAIN cache \cup {key} |->
        IF k = key THEN [value |-> value, expiry |-> t + ttl] ELSE cache[k]]

SimpleCache_delete(cache, key) ==
    [k \in DOMAIN cache \ {key} |-> cache[k]]

----------------------------------------------------------------------------
(* The gate                                                                *)

\* a check_admin that takes every caller for the administrator
check_admin_everybody(user_id) == TRUE

\* a check_admin that knows no administrator
check_admin_nobody(user_id) == FALSE

check_admin(user_id) == user_id = ADMIN_TELEGRAM_ID

\* an is_user_authorized that serves a cached value only when it is true
is_user_authorized_store_first(us, cache, telegram_id, t) ==
    IF SimpleCache_hit(cache, telegram_id, t) /\ cache[telegram_id].value
    THEN [result |-> TRUE, cache |-> cache]
    ELSE LET result == IF telegram_id \in DOMAIN us
                       THEN us[telegram_id].is_authorized ELSE FALSE
         IN [result |-> result,
             cache |-> SimpleCache_set(SimpleCache_get(cache, telegram_id, t),
                                       telegram_id, result, AuthTTL, t)]

\* result and the auth cache afterwards
is_user_authorized(us, cache, telegram_id, t) ==
    IF SimpleCache_hit(cache, telegram_id, t)
    THEN [result |-> cache[telegram_id].value, cache |-> cache]
    ELSE LET result == IF telegram_id \in DOMAIN us
                       THEN us[telegram_id].is_authorized ELSE FALSE
         IN [result |-> result,
             cache |-> SimpleCache_set(SimpleCache_get(cache, telegram_id, t),
                                       telegram_id, result, AuthTTL, t)]

\* a log_unauthorized_attempt that keeps the newest record only
log_unauthorized_attempt_overwrite(log, telegram_id, message, db_ok) ==
    IF db_ok
    THEN <<[telegram_id |-> telegram_id,
            message |-> [body |-> message.body,
                         len |-> Min(message.len, MessageCap)]]>>
    ELSE log

\* the table afterwards; db_ok = FALSE: the commit raises and is rolled back
log_unauthorized_attempt(log, telegram_id, message, db_ok) ==
    IF db_ok
    THEN Append(log, [telegram_id |-> telegram_id,
                      message |-> [body |-> message.body,
                                   len |-> Min(message.len, MessageCap)]])
    ELSE log

\* a check_rate_limit that restarts the lifetime of the counter when it rejects
check_rate_limit_restamp(cache, telegram_id, limit, t) ==
    LET count == IF SimpleCache_hit(cache, telegram_id, t)
                 THEN cache[telegram_id].value ELSE 0
        after == SimpleCache_get(cache, telegram_id, t)
    IN IF count >= limit
       THEN [result |-> FALSE,
             cache |-> SimpleCache_set(after, telegram_id, count, RateTTL, t)]
       ELSE [result |-> TRUE,
             cache |-> SimpleCache_set(after, telegram_id, count + 1, RateTTL, t)]

\* a check_rate_limit whose write of a live counter loses the increment
check_rate_limit_lost(cache, telegram_id, limit, t) ==
    LET hit == SimpleCache_hit(cache, telegram_id, t)
        count == IF hit THEN cache[telegram_id].value ELSE 0
        after == SimpleCache_get(cache, telegram_id, t)
    IN IF count >= limit
       THEN [result |-> FALSE, cache |-> after]
       ELSE [result |-> TRUE,
             cache |-> SimpleCache_set(after, telegram_id,
                                       IF hit THEN count ELSE count + 1, RateTTL, t)]

\* a check_rate_limit that rejects above the limit only
check_rate_limit_above(cache, telegram_id, limit, t) ==
    LET count == IF SimpleCache_hit(cache, telegram_id, t)
                 THEN cache[telegram_id].value ELSE 0
        after == SimpleCache_get(cache, telegram_id, t)
    IN IF count > limit
       THEN [result |-> FALSE, cache |-> after]
       ELSE [result |-> TRUE,
             cache |-> SimpleCache_set(after, telegram_id, count + 1, RateTTL, t)]

\* result and the rate-limit cache afterwards
check_rate_limit(cache, telegram_id, limit, t) ==
    LET count == IF SimpleCache_hit(cache, telegram_id, t)
                 THEN cache[telegram_id].value ELSE 0
        after == SimpleCache_get(cache, telegram_id, t)
    IN IF count >= limit
       THEN [result |-> FALSE, cache |-> after]
       ELSE [result |-> TRUE,
             cache |-> SimpleCache_set(after, telegram_id, count + 1, RateTTL, t)]

\* what the gate logs for an update without a message
NoMessageText == [body |-> "N/A", len |-> 3]

\* a gate that lets every caller through
require_auth_open(c, message, fault) ==
    [outcome |-> "PROCEED", auth |-> auth_cache, rate |-> rate_limit_cache,
     log |-> attempts, reply |-> "", raised |-> FALSE, used |-> FALSE]

\* Wrapper of require_auth up to the call of the wrapped handler.  outcome:
\* what the gate decided ("RAISED": the authorization lookup raised before any
\* decision); reply: the text delivered by the gate; raised: an exception
\* left the wrapper; used: the fault of the request struck inside the gate.
require_auth(c, message, fault) ==
    LET silent == fault \in {"language", "reply", "message"}
        text == IF fault = "message" THEN NoMessageText ELSE message
    IN
    IF check_admin(c)
    THEN [outcome |-> "PROCEED", auth |-> auth_cache,
          rate |-> rate_limit_cache, log |-> attempts,
          reply |-> "", raised |-> FALSE, used |-> FALSE]
    ELSE IF fault = "authorized" /\ ~SimpleCache_hit(auth_cache, c, now)
    THEN [outcome |-> "RAISED", auth |-> SimpleCache_get(auth_cache, c, now),
          rate |-> rate_limit_cache, log |-> attempts,
          reply |-> "", raised |-> TRUE, used |-> TRUE]
    ELSE LET a == is_user_authorized(users, auth_cache, c, now) IN
         IF ~a.result
         THEN [outcome |-> "DENIED", auth |-> a.cache, rate |-> rate_limit_cache,
               log |-> log_unauthorized_attempt(attempts, c, text, fault # "log"),
               reply |-> IF silent THEN "" ELSE "access_denied",
               raised |-> silent, used |-> silent \/ fault = "log"]
         ELSE LET r == check_rate_limit(rate_limit_cache, c, max_requests, now) IN
              IF ~r.result
              THEN [outcome |-> "RATE_LIMITED", auth |-> a.cache,
                    rate |-> r.cache, log |-> attempts,
                    reply |-> IF silent THEN "" ELSE "rate_limit",
                    raised |-> silent, used |-> silent]
              ELSE [outcome |-> "PROCEED", auth |-> a.cache,
                    rate |-> r.cache, log |-> attempts,
                    reply |-> "", raised |-> FALSE, used |-> FALSE]

\* History of the fixed windows of section 4.4: a window begins with the
\* first request admitted after the previous window of the caller ended.
FixedWindow(ws, c, outcome, t) ==
    IF outcome = "PROCEED" /\ ~check_admin(c)
         /\ (c \notin DOMAIN ws \/ t >= ws[c] + RateTTL)
    THEN [k \in DOMAIN ws \cup {c} |-> IF k = c THEN t ELSE ws[k]]
    ELSE ws

----------------------------------------------------------------------------
(* Text inputs.  A command argument is kept as its lexical parts: an       *)
(* optional minus sign, a run of decimal digits (num, -1 when there is     *)
(* none) and the rest of the text (suffix).                                *)

Arg(neg, num, suffix) == [neg |-> neg, num |-> num, suffix |-> suffix]

\* str.lower() on the suffixes that are used
lower(s) ==
    CASE s = "D" -> "d"
      [] s = "M" -> "m"
      [] s = "H" -> "h"
      [] OTHER -> s

\* any(c.isalpha() for c in arg)
has_alpha(a) == a.suffix \notin {"", "."}

\* int(arg) does not raise
is_int(a) == a.suffix = "" /\ a.num >= 0

int(a) == IF a.neg THEN 0 - a.num ELSE a.num

\* a str.upper() that leaves its text as it is
upper_none(s) == s

\* str.upper() on the code texts that are used
upper(s) ==
    CASE s = "ab12cd34" -> "AB12CD34"
      [] s = "Ab12cD34" -> "AB12CD34"
      [] s = "zz99yy88" -> "ZZ99YY88"
      [] OTHER -> s

Range(seq) == {seq[i] : i \in 1..Len(seq)}

----------------------------------------------------------------------------
(* Durations (a timedelta is its number of seconds)                        *)

timedelta(days) == days * DaySeconds

\* a parse_duration with calendar-length (31-day) months
parse_duration_long_month(duration_str) ==
    LET u == lower(duration_str.suffix)
        n == duration_str.num
        digits == ~duration_str.neg /\ n >= 0
    IN IF digits /\ u \in {"m", "mo", "month", "months"} THEN timedelta(n * 31)
       ELSE IF digits /\ u \in {"y", "yr", "year", "years"} THEN timedelta(n * 365)
       ELSE IF digits /\ u \in {"d", "day", "days"} THEN timedelta(n)
       ELSE IF digits /\ u \in {"h", "hr", "hour", "hours"} THEN timedelta(n \div 24)
       ELSE timedelta(1)

parse_duration(duration_str) ==
    LET u == lower(duration_str.suffix)
        n == duration_str.num
        digits == ~duration_str.neg /\ n >= 0
    IN IF digits /\ u \in {"m", "mo", "month", "months"} THEN timedelta(n * 30)
       ELSE IF digits /\ u \in {"y", "yr", "year", "years"} THEN timedelta(n * 365)
       ELSE IF digits /\ u \in {"d", "day", "days"} THEN timedelta(n)
       ELSE IF digits /\ u \in {"h", "hr", "hour", "hours"} THEN timedelta(n \div 24)
       ELSE timedelta(1)

\* a format_duration that needs more than 365 days for a year
format_duration_late_year(td) ==
    LET days == td \div DaySeconds
    IN IF days > 365 THEN Arg(FALSE, days \div 365, "y")
       ELSE IF days >= 30 THEN Arg(FALSE, days \div 30, "m")
       ELSE Arg(FALSE, days, "d")

format_duration(td) ==
    LET days == td \div DaySeconds
    IN IF days >= 365 THEN Arg(FALSE, days \div 365, "y")
       ELSE IF days >= 30 THEN Arg(FALSE, days \div 30, "m")
       ELSE Arg(FALSE, days, "d")

----------------------------------------------------------------------------
(* The referral code store                                                 *)

\* a create_referral_code whose insert replaces the row of a taken token
create_referral_code_overwrite(cs, code, admin_id, duration, max_uses, t, db_ok) ==
    IF db_ok
    THEN [ok |-> TRUE,
          codes |-> [k \in DOMAIN cs \cup {code} |->
                       IF k = code
                       THEN [created_by |-> admin_id,
                             expires_at |-> t + duration,
                             max_uses |-> max_uses,
                             used_count |-> 0,
                             is_active |-> TRUE,
                             used_by |-> << >>]
                       ELSE cs[k]]]
    ELSE [ok |-> FALSE, codes |-> cs]

\* `code` is the token generate_referral_code() drew.  The commit raises
\* when the token is taken (unique column) or when db_ok = FALSE.
create_referral_code(cs, code, admin_id, duration, max_uses, t, db_ok) ==
    IF db_ok /\ code \notin DOMAIN cs
    THEN [ok |-> TRUE,
          codes |-> [k \in DOMAIN cs \cup {code} |->
                       IF k = code
                       THEN [created_by |-> admin_id,
                             expires_at |-> t + duration,
                             max_uses |-> max_uses,
                             used_count |-> 0,
                             is_active |-> TRUE,
                             used_by |-> << >>]
                       ELSE cs[k]]]
    ELSE [ok |-> FALSE, codes |-> cs]

\* a validate_referral_code that reports an expired code without persisting
\* the deactivation
validate_referral_code_no_flip(cs, code, user_id, t, db_ok) ==
    LET k == upper(code)
        no(reason) == [valid |-> FALSE, reason |-> reason, codes |-> cs]
    IN IF ~db_ok THEN no("error")
       ELSE IF k \notin DOMAIN cs THEN no("invalid_code")
       ELSE IF ~cs[k].is_active THEN no("code_deactivated")
       ELSE IF t > cs[k].expires_at THEN no("code_expired")
       ELSE IF cs[k].used_count >= cs[k].max_uses THEN no("code_max_uses")
       ELSE IF user_id \in Range(cs[k].used_by) THEN no("code_used")
       ELSE [valid |-> TRUE, reason |-> "valid", codes |-> cs]

validate_referral_code(cs, code, user_id, t, db_ok) ==
    LET k == upper(code)
        no(reason) == [valid |-> FALSE, reason |-> reason, codes |-> cs]
    IN IF ~db_ok THEN no("error")
       ELSE IF k \notin DOMAIN cs THEN no("invalid_code")
       ELSE IF ~cs[k].is_active THEN no("code_deactivated")
       ELSE IF t > cs[k].expires_at
            THEN [valid |-> FALSE, reason |-> "code_expired",
                  codes |-> [cs EXCEPT ![k].is_active = FALSE]]
       ELSE IF cs[k].used_count >= cs[k].max_uses THEN no("code_max_uses")
       ELSE IF user_id \in Range(cs[k].used_by) THEN no("code_used")
       ELSE [valid |-> TRUE, reason |-> "valid", codes |-> cs]

\* a use_referral_code that commits the counter before the redeemer list
use_referral_code_partial(cs, code, user_id, db_ok) ==
    LET k == upper(code) IN
    IF k \in DOMAIN cs
    THEN LET used_count == cs[k].used_count + 1 IN
         IF db_ok
         THEN [result |-> TRUE,
               codes |-> [cs EXCEPT ![k] =
                            [@ EXCEPT !.used_count = used_count,
                                      !.used_by = Append(@, user_id),
                                      !.is_active = IF used_count >= cs[k].max_uses
                                                    THEN FALSE ELSE @]]]
         ELSE [result |-> FALSE,
               codes |-> [cs EXCEPT ![k].used_count = used_count]]
    ELSE [result |-> FALSE, codes |-> cs]

\* a use_referral_code that counts the redemption without listing the caller
use_referral_code_no_append(cs, code, user_id, db_ok) ==
    LET k == upper(code) IN
    IF db_ok /\ k \in DOMAIN cs
    THEN LET used_count == cs[k].used_count + 1 IN
         [result |-> TRUE,
          codes |-> [cs EXCEPT ![k] =
                       [@ EXCEPT !.used_count = used_count,
                                 !.is_active = IF used_count >= cs[k].max_uses
                                               THEN FALSE ELSE @]]]
    ELSE [result |-> FALSE, codes |-> cs]

\* a use_referral_code that reports success although its commit raised
use_referral_code_unchecked(cs, code, user_id, db_ok) ==
    LET k == upper(code) IN
    IF db_ok /\ k \in DOMAIN cs
    THEN LET used_count == cs[k].used_count + 1 IN
         [result |-> TRUE,
          codes |-> [cs EXCEPT ![k] =
                       [@ EXCEPT !.used_count = used_count,
                                 !.used_by = Append(@, user_id),
                                 !.is_active = IF used_count >= cs[k].max_uses
                                               THEN FALSE ELSE @]]]
    ELSE [result |-> TRUE, codes |-> cs]

use_referral_code(cs, code, user_id, db_ok) ==
    LET k == upper(code) IN
    IF db_ok /\ k \in DOMAIN cs
    THEN LET used_count == cs[k].used_count + 1 IN
         [result |-> TRUE,
          codes |-> [cs EXCEPT ![k] =
                       [@ EXCEPT !.used_count = used_count,
                                 !.used_by = Append(@, user_id),
                                 !.is_active = IF used_count >= cs[k].max_uses
                                               THEN FALSE ELSE @]]]
    ELSE [result |-> FALSE, codes |-> cs]

\* result, the users table and the auth cache afterwards; db_ok = FALSE: the
\* query or the commit raises and is rolled back.  No handler calls it.
authorize_user(us, cache, telegram_id, db_ok) ==
    IF db_ok /\ telegram_id \in DOMAIN us
    THEN [result |-> TRUE,
          users |-> [us EXCEPT ![telegram_id].is_authorized = TRUE],
          cache |-> SimpleCache_delete(cache, telegram_id)]
    ELSE [result |-> FALSE, users |-> us, cache |-> cache]

----------------------------------------------------------------------------
(* Inputs                                                                  *)

Tokens == {"AB12CD34", "ZZ99YY88"}
\* what a caller types after /code: no argument, or one text
CodeArgs == {<< >>, <<"AB12CD34">>, <<"ab12cd34">>, <<"ZZ99YY88">>}
\* what the administrator types after /gencode
GenArgs == {<< >>,
            <<Arg(FALSE, 1, "d"), Arg(FALSE, 2, "")>>,
            <<Arg(FALSE, 23, "h")>>,
            <<Arg(FALSE, 1, "d"), Arg(TRUE, 1, "")>>,
            <<Arg(FALSE, -1, ".")>>}
\* What goes wrong in one request, if anything: the one call that raises.
\*   language    the query of get_user_language (no except clause)
\*   authorized  the query of is_user_authorized after a cache miss (no except
\*               clause)
\*   memory      a query of get_recent_memory / get_memory_summary (no except
\*               clause)
\*   log         the insert of log_unauthorized_attempt (rolled back, swallowed)
\*   validate, use, authorize, create, query, delete
\*               the store call of that name in the handler
\*   reply       the first reply_text call of the request raises (a
\*               telegram.error.NetworkError); a later one goes through
\*   message     the update carries no message (an edited message, say):
\*               update.message is None and every use of it raises
StoreFaults == {"language", "authorized", "memory", "log", "validate", "use",
                "authorize", "create", "query", "delete"}
DeliveryFaults == {"reply", "message"}
Faults == {"none"} \cup StoreFaults \cup DeliveryFaults
\* the faults a /code request can meet
EnterFaults == {"none", "language", "authorized", "validate", "use", "authorize",
                "reply", "message"}

\* update.message.text of a text message and of a command
MessageText == [body |-> "text", len |-> 501]
CommandText == [body |-> "/command", len |-> 8]
StartedText == [body |-> "Started bot", len |-> 11]
BadCodeText(code) ==
    [body |-> CASE code = "AB12CD34" -> "Bad code: AB12CD34"
                [] code = "ZZ99YY88" -> "Bad code: ZZ99YY88"
                [] OTHER -> "Bad code: ?",
     len |-> 18]

\* threads that call methods of one SimpleCache instance, the key they use
Threads == {"t1", "t2"}
CacheKey == "auth_200"
CacheOps == {"get", "set", "delete"}
\* locals of a thread inside a method: `seen` is the entry it read
NoEntry == [present |-> FALSE, value |-> FALSE, expiry |-> 0]
Idle == [pc |-> "idle", op |-> "", key |-> "", value |-> FALSE, seen |-> NoEntry]
\* what a step of a cache method did: `hit` and `value` are what get returned
\* (hit = FALSE: None)
CacheStep(op, thread, key, hit, value) ==
    [op |-> op, thread |-> thread, key |-> key, hit |-> hit, value |-> value]

\* What a request did.  reply: the text that was delivered to the chat ("":
\* none); fault: the call that raised; db_ok: no store call raised; raised:
\* an exception left the handler.
Request(op, caller, outcome, reply, fault, raised, arg) ==
    [op |-> op, caller |-> caller, outcome |-> outcome, reply |-> reply,
     db_ok |-> fault \notin StoreFaults, arg |-> arg, fault |-> fault,
     raised |-> raised]

\* a step with at most a store failure that is caught
Step(op, caller, outcome, reply, db_ok, arg) ==
    [op |-> op, caller |-> caller, outcome |-> outcome, reply |-> reply,
     db_ok |-> db_ok, arg |-> arg, fault |-> IF db_ok THEN "none" ELSE "store",
     raised |-> FALSE]

----------------------------------------------------------------------------
(* Initial state: empty tables (init_db), empty caches, no request in      *)
(* flight.                                                                 *)

Init ==
    /\ now = 0
    /\ codes = << >>
    /\ users = << >>
    /\ attempts = << >>
    /\ conversations = [c \in Callers |-> 0]
    /\ auth_cache = << >>
    /\ rate_limit_cache = << >>
    /\ tasks = [c \in Callers |-> [reply |-> 0, save |-> 0]]
    /\ last = Step("init", "", "NONE", "", TRUE, "")
    /\ window_start = << >>
    /\ lock = "free"
    /\ threads = [t \in Threads |-> Idle]
    /\ update_queue = << >>
    /\ sending = << >>
    /\ replied = << >>

----------------------------------------------------------------------------
(* The clock                                                               *)

TickShortStep ==
    /\ (now % DaySeconds) \div TickShort < MaxShortTicks
    /\ now' = now + TickShort
    /\ last' = Step("tick", "", "NONE", "", TRUE, "")
    /\ UNCHANGED <<update_queue, sending, replied, lock, threads, codes, users, attempts, conversations, auth_cache,
                   rate_limit_cache, tasks, window_start>>

TickDayStep ==
    /\ now \div DaySeconds < MaxDays
    /\ now' = now + DaySeconds
    /\ last' = Step("tick", "", "NONE", "", TRUE, "")
    /\ UNCHANGED <<update_queue, sending, replied, lock, threads, codes, users, attempts, conversations, auth_cache,
                   rate_limit_cache, tasks, window_start>>

----------------------------------------------------------------------------------------------------------------------------------------------
(* Handlers.  `fault` is the call of the request that raises, if any; a    *)
(* request takes only a fault that it reaches.  A handler is one step up   *)
(* to the end of its last reply_text call, except handle_message, which    *)
(* goes on after its reply.                                                *)

\* /start
start(c, fault) ==
    LET hit == SimpleCache_hit(auth_cache, c, now)
        a == is_user_authorized(users, auth_cache, c, now)
        denied == ~a.result /\ ~check_admin(c)
        raised == fault \in {"language", "authorized", "memory", "reply", "message"}
    IN /\ \/ fault \in {"none", "language", "reply", "message"}
          \/ fault = "authorized" /\ ~hit
          \/ fault = "log" /\ denied
          \/ fault = "memory" /\ ~denied
       /\ auth_cache' = IF fault = "language" THEN auth_cache
                        ELSE IF fault = "authorized"
                        THEN SimpleCache_get(auth_cache, c, now)
                        ELSE a.cache
       /\ attempts' = IF denied /\ fault \notin {"language", "authorized"}
                      THEN log_unauthorized_attempt(attempts, c, StartedText,
                                                    fault # "log")
                      ELSE attempts
       /\ Len(attempts') <= MaxAttempts
       /\ last' = Request("start", c, "NONE",
                          IF raised THEN ""
                          ELSE IF denied THEN "access_denied" ELSE "welcome",
                          fault, raised, "")
       /\ UNCHANGED <<update_queue, sending, replied, lock, threads, now, codes, users, conversations, rate_limit_cache, tasks,
                      window_start>>

\* /code up to the end of the handler: the tables and the auth cache
\* afterwards, the reply delivered, whether an exception left the handler,
\* the code that was looked up, and whether the fault was reached (used)
enter_code_run(c, args, fault, log_ok) ==
    LET delivery == fault \in DeliveryFaults
        same == [auth |-> auth_cache, codes |-> codes, attempts |-> attempts,
                 users |-> users, reply |-> "", raised |-> TRUE, arg |-> "",
                 used |-> TRUE]
        hit == SimpleCache_hit(auth_cache, c, now)
        a == is_user_authorized(users, auth_cache, c, now)
        code == upper(args[1])
        v == validate_referral_code(codes, code, c, now, fault # "validate")
        u == use_referral_code(v.codes, code, c, fault # "use")
        authorized == [k \in DOMAIN users \cup {c} |->
                         IF k = c THEN [is_authorized |-> TRUE] ELSE users[k]]
    IN IF fault = "language"
       THEN same
       ELSE IF args = << >>
       THEN [same EXCEPT !.reply = IF delivery THEN "" ELSE "code_prompt",
                         !.raised = delivery,
                         !.used = delivery \/ fault = "none"]
       ELSE IF fault = "authorized" /\ ~hit
       THEN [same EXCEPT !.auth = SimpleCache_get(auth_cache, c, now),
                         !.arg = code]
       ELSE IF a.result
       THEN [same EXCEPT !.auth = a.cache,
                         !.reply = IF delivery THEN "" ELSE "already_authorized",
                         !.raised = delivery, !.arg = code,
                         !.used = delivery \/ fault = "none"]
       ELSE IF ~v.valid
       THEN [same EXCEPT !.auth = a.cache, !.codes = v.codes,
                         !.attempts = log_unauthorized_attempt(
                                         attempts, c, BadCodeText(code), log_ok),
                         !.reply = IF delivery THEN "" ELSE v.reason,
                         !.raised = delivery, !.arg = code,
                         !.used = delivery \/ fault \in {"none", "validate"}]
       ELSE IF ~u.result
       THEN [same EXCEPT !.auth = a.cache, !.codes = u.codes,
                         !.reply = "error", !.raised = FALSE, !.arg = code,
                         !.used = (fault = "use")]
       ELSE IF fault = "authorize"
       THEN [same EXCEPT !.auth = a.cache, !.codes = u.codes,
                         !.reply = "error", !.raised = FALSE, !.arg = code]
       ELSE [same EXCEPT !.auth = a.cache, !.codes = u.codes,
                         !.users = authorized,
                         !.reply = CASE fault = "reply" -> "error"
                                     [] fault = "message" -> ""
                                     [] OTHER -> "code_accepted",
                         !.raised = (fault = "message"), !.arg = code,
                         !.used = delivery \/ fault \in {"none", "use"}]

\* /code; log_ok says whether the audit insert of a rejected code commits
enter_code(c, args, fault, log_ok) ==
    \E e \in {enter_code_run(c, args, fault, log_ok)} :
       /\ e.used
       /\ auth_cache' = e.auth
       /\ codes' = e.codes
       /\ attempts' = e.attempts
       /\ Len(attempts') <= MaxAttempts
       /\ users' = e.users
       /\ last' = Request("enter_code", c, "NONE", e.reply, fault, e.raised, e.arg)
       /\ UNCHANGED <<update_queue, sending, replied, lock, threads, now, conversations, rate_limit_cache, tasks, window_start>>

\* the argument handling of /gencode: the duration text and max_uses, or the
\* usage reply
gencode_args(args) ==
    IF args = << >>
    THEN [ok |-> TRUE, duration_str |-> Arg(FALSE, 24, "h"), max_uses |-> 1]
    ELSE IF has_alpha(args[1])
    THEN [ok |-> TRUE, duration_str |-> args[1],
          max_uses |-> IF Len(args) > 1 /\ is_int(args[2]) THEN int(args[2]) ELSE 1]
    ELSE IF ~is_int(args[1]) \/ (Len(args) > 1 /\ ~is_int(args[2]))
    THEN [ok |-> FALSE, duration_str |-> args[1], max_uses |-> 1]
    ELSE [ok |-> TRUE,
          duration_str |-> Arg(int(args[1]) < 0, args[1].num, "h"),
          max_uses |-> IF Len(args) > 1 THEN int(args[2]) ELSE 1]

\* /gencode; `token` is what generate_referral_code() draws
generate_code(c, args, token, fault) ==
    \E g \in {require_auth(c, CommandText, fault)} :
    LET proceed == g.outcome = "PROCEED"
        delivery == fault \in DeliveryFaults
        p == gencode_args(args)
        r == create_referral_code(codes, token, c, parse_duration(p.duration_str),
                                  p.max_uses, now, fault # "create")
        h == IF fault = "language"
             THEN [codes |-> codes, reply |-> "", raised |-> TRUE, used |-> TRUE,
                   arg |-> ""]
             ELSE IF ~check_admin(c) \/ ~p.ok
             THEN [codes |-> codes,
                   reply |-> IF delivery THEN ""
                             ELSE IF ~check_admin(c) THEN "admin_only" ELSE "usage",
                   raised |-> delivery, used |-> delivery, arg |-> ""]
             ELSE [codes |-> r.codes,
                   reply |-> IF delivery THEN ""
                             ELSE IF r.ok THEN "code_generated" ELSE "error",
                   raised |-> delivery, used |-> delivery \/ fault = "create",
                   arg |-> IF r.ok THEN token ELSE ""]
    IN /\ fault = "none" \/ g.used \/ (proceed /\ h.used)
       /\ auth_cache' = g.auth
       /\ rate_limit_cache' = g.rate
       /\ attempts' = g.log
       /\ Len(attempts') <= MaxAttempts
       /\ codes' = IF proceed THEN h.codes ELSE codes
       /\ last' = Request("generate_code", c, g.outcome,
                          IF proceed THEN h.reply ELSE g.reply, fault,
                          IF proceed THEN h.raised ELSE g.raised,
                          IF proceed THEN h.arg ELSE "")
       /\ window_start' = FixedWindow(window_start, c, g.outcome, now)
       /\ UNCHANGED <<update_queue, sending, replied, lock, threads, now, users, conversations, tasks>>

\* /codes
list_codes(c, fault) ==
    \E g \in {require_auth(c, CommandText, fault)} :
    LET proceed == g.outcome = "PROCEED"
        delivery == fault \in DeliveryFaults
        h == IF fault = "language"
             THEN [reply |-> "", raised |-> TRUE, used |-> TRUE]
             ELSE IF ~check_admin(c)
             THEN [reply |-> IF delivery THEN "" ELSE "admin_only",
                   raised |-> delivery, used |-> delivery]
             ELSE [reply |-> CASE fault \in {"query", "reply"} -> "error"
                               [] fault = "message" -> ""
                               [] OTHER ->
                                    IF \E k \in DOMAIN codes : codes[k].is_active
                                    THEN "active_codes" ELSE "no_codes",
                   raised |-> fault = "message",
                   used |-> delivery \/ fault = "query"]
    IN /\ fault = "none" \/ g.used \/ (proceed /\ h.used)
       /\ auth_cache' = g.auth
       /\ rate_limit_cache' = g.rate
       /\ attempts' = g.log
       /\ Len(attempts') <= MaxAttempts
       /\ last' = Request("list_codes", c, g.outcome,
                          IF proceed THEN h.reply ELSE g.reply, fault,
                          IF proceed THEN h.raised ELSE g.raised, "")
       /\ window_start' = FixedWindow(window_start, c, g.outcome, now)
       /\ UNCHANGED <<update_queue, sending, replied, lock, threads, now, codes, users, conversations, tasks>>

\* /delete_my_data
delete_my_data(c, fault) ==
    \E g \in {require_auth(c, CommandText, fault)} :
    LET proceed == g.outcome = "PROCEED"
        delivery == fault \in DeliveryFaults
        h == IF fault = "language"
             THEN [deletes |-> FALSE, reply |-> "", raised |-> TRUE, used |-> TRUE]
             ELSE IF ~check_admin(c)
             THEN [deletes |-> FALSE,
                   reply |-> IF delivery THEN "" ELSE "admin_only",
                   raised |-> delivery, used |-> delivery]
             ELSE [deletes |-> fault # "delete",
                   reply |-> CASE fault \in {"delete", "reply"} -> "error"
                               [] fault = "message" -> ""
                               [] OTHER -> "data_deleted",
                   raised |-> fault = "message",
                   used |-> delivery \/ fault = "delete"]
        deletes == proceed /\ h.deletes
    IN /\ fault = "none" \/ g.used \/ (proceed /\ h.used)
       /\ rate_limit_cache' = g.rate
       /\ attempts' = g.log
       /\ Len(attempts') <= MaxAttempts
       /\ users' = IF deletes THEN [k \in DOMAIN users \ {c} |-> users[k]] ELSE users
       /\ conversations' = IF deletes THEN [conversations EXCEPT ![c] = 0]
                           ELSE conversations
       /\ auth_cache' = IF deletes THEN SimpleCache_delete(g.auth, c) ELSE g.auth
       /\ last' = Request("delete_my_data", c, g.outcome,
                          IF proceed THEN h.reply ELSE g.reply, fault,
                          IF proceed THEN h.raised ELSE g.raised, "")
       /\ window_start' = FixedWindow(window_start, c, g.outcome, now)
       /\ UNCHANGED <<update_queue, sending, replied, lock, threads, now, codes, tasks>>

\* A text message: the gate and handle_message up to `await reply_text`.
\* The reply of the handler is handed over here and returns in
\* handle_message_resume; a missing message or a failing lookup ends the
\* handler before it.
handle_message(c, fault) ==
    \E g \in {require_auth(c, MessageText, fault)} :
    LET proceed == g.outcome = "PROCEED"
        stopped == fault \in {"message", "language", "memory"}
        awaits == proceed /\ ~stopped
    IN /\ fault = "none" \/ g.used \/ (proceed /\ stopped)
       /\ auth_cache' = g.auth
       /\ rate_limit_cache' = g.rate
       /\ attempts' = g.log
       /\ Len(attempts') <= MaxAttempts
       /\ awaits =>
            conversations[c] + tasks[c].reply + tasks[c].save < MaxConversations
       /\ tasks' = IF awaits THEN [tasks EXCEPT ![c].reply = @ + 1] ELSE tasks
       /\ last' = Request("handle_message", c, g.outcome,
                          IF awaits THEN "response"
                          ELSE IF proceed THEN "" ELSE g.reply,
                          fault,
                          IF proceed THEN stopped ELSE g.raised, "")
       /\ window_start' = FixedWindow(window_start, c, g.outcome, now)
       /\ UNCHANGED <<update_queue, sending, replied, lock, threads, now, codes, users, conversations>>

\* handle_message resumes after the reply.  ok: reply_text returned and
\* asyncio.create_task(save_conversation()) is reached; otherwise reply_text
\* raised and the handler ends with that exception.
handle_message_resume(c, ok) ==
    /\ tasks[c].reply > 0
    /\ tasks' = IF ok THEN [tasks EXCEPT ![c].reply = @ - 1, ![c].save = @ + 1]
                ELSE [tasks EXCEPT ![c].reply = @ - 1]
    /\ last' = IF ok THEN Step("create_task", c, "NONE", "", TRUE, "")
               ELSE Request("reply_text", c, "NONE", "", "reply", TRUE, "")
    /\ UNCHANGED <<update_queue, sending, replied, lock, threads, now, codes, users, attempts, conversations, auth_cache,
                   rate_limit_cache, window_start>>

\* a save whose failure is not rolled back: the conversation row stays
save_conversation_no_rollback(c, db_ok) ==
    /\ tasks[c].save > 0
    /\ tasks' = [tasks EXCEPT ![c].save = @ - 1]
    /\ conversations' = [conversations EXCEPT ![c] = @ + 1]
    /\ users' = IF db_ok /\ c \notin DOMAIN users
                THEN [k \in DOMAIN users \cup {c} |->
                        IF k = c THEN [is_authorized |-> TRUE] ELSE users[k]]
                ELSE users
    /\ last' = Step("save_conversation", c, "NONE", "", db_ok, "")
    /\ UNCHANGED <<update_queue, sending, replied, lock, threads, now, codes, attempts, auth_cache, rate_limit_cache,
                   window_start>>

\* the spawned task
save_conversation(c, db_ok) ==
    /\ tasks[c].save > 0
    /\ tasks' = [tasks EXCEPT ![c].save = @ - 1]
    /\ conversations' = IF db_ok THEN [conversations EXCEPT ![c] = @ + 1]
                        ELSE conversations
    /\ users' = IF db_ok /\ c \notin DOMAIN users
                THEN [k \in DOMAIN users \cup {c} |->
                        IF k = c THEN [is_authorized |-> TRUE] ELSE users[k]]
                ELSE users
    /\ last' = Step("save_conversation", c, "NONE", "", db_ok, "")
    /\ UNCHANGED <<update_queue, sending, replied, lock, threads, now, codes, attempts, auth_cache, rate_limit_cache,
                   window_start>>

----------------------------------------------------------------------------

Next ==
    \/ TickShortStep
    \/ TickDayStep
    \/ \E c \in Callers, fault \in Faults : start(c, fault)
    \/ \E c \in Callers, args \in CodeArgs, fault \in EnterFaults,
          log_ok \in BOOLEAN : enter_code(c, args, fault, log_ok)
    \/ \E c \in Callers, args \in GenArgs, token \in Tokens, fault \in Faults :
          generate_code(c, args, token, fault)
    \/ \E c \in Callers, fault \in Faults : list_codes(c, fault)
    \/ \E c \in Callers, fault \in Faults : delete_my_data(c, fault)
    \/ \E c \in Callers, fault \in Faults : handle_message(c, fault)
    \/ \E c \in Callers, ok \in BOOLEAN : handle_message_resume(c, ok)
    \/ \E c \in Callers, db_ok \in BOOLEAN : save_conversation(c, db_ok)

\* the whole program
Spec == Init /\ [][Next]_vars

----------------------------------------------------------------------------
(* The code store on its own: the callers redeem, the administrator        *)
(* generates codes and deletes its data, the clock moves by days.  The     *)
(* audit insert of a rejected /code fails (attempts is written and never   *)
(* read).  A store call of the request may raise, and so may the           *)
(* reply_text call that answers a /code.                                   *)

CodesFaults == {"none", "validate", "use", "authorize", "reply"}

NextCodes ==
    \/ TickDayStep
    \/ \E c \in Callers, args \in CodeArgs, fault \in CodesFaults :
          enter_code(c, args, fault, FALSE)
    \/ \E args \in GenArgs, fault \in {"none", "create"} :
          generate_code(ADMIN_TELEGRAM_ID, args, "AB12CD34", fault)
    \/ \E fault \in {"none", "delete"} : delete_my_data(ADMIN_TELEGRAM_ID, fault)

SpecCodes == Init /\ [][NextCodes]_vars

\* Every fault of every request: the administrator generates a code, lists
\* the codes and deletes its data, a caller sends /start and /code, and in
\* each request any one call that the request reaches may raise.
NextFaults ==
    \/ TickDayStep
    \/ \E c \in {ADMIN_TELEGRAM_ID, "200"}, fault \in Faults : start(c, fault)
    \/ \E args \in {<< >>, <<"AB12CD34">>}, fault \in EnterFaults,
          log_ok \in BOOLEAN : enter_code("200", args, fault, log_ok)
    \/ \E fault \in Faults :
          generate_code(ADMIN_TELEGRAM_ID, << >>, "AB12CD34", fault)
    \/ \E fault \in Faults : list_codes(ADMIN_TELEGRAM_ID, fault)
    \/ \E fault \in Faults : delete_my_data(ADMIN_TELEGRAM_ID, fault)

SpecFaults == Init /\ [][NextFaults]_vars

\* The process is started again: main calls init_db before it serves any
\* request.  The caches and the suspended handlers of the previous process
\* are gone.  db_ok = FALSE: the inspection of the schema or create_all
\* raises, and init_db falls back to drop_all (which may raise as well,
\* drop_ok = FALSE, and is then skipped) followed by create_all.
init_db(db_ok, drop_ok) ==
    LET dropped == ~db_ok /\ drop_ok IN
    /\ db_ok => drop_ok
    /\ codes' = IF dropped THEN << >> ELSE codes
    /\ users' = IF dropped THEN << >> ELSE users
    /\ attempts' = IF dropped THEN << >> ELSE attempts
    /\ conversations' = IF dropped THEN [c \in Callers |-> 0] ELSE conversations
    /\ auth_cache' = << >>
    /\ rate_limit_cache' = << >>
    /\ tasks' = [c \in Callers |-> [reply |-> 0, save |-> 0]]
    /\ window_start' = << >>
    /\ lock' = "free"
    /\ threads' = [t \in Threads |-> Idle]
    /\ last' = Step("init_db", "", "NONE", "", db_ok, "")
    /\ update_queue' = << >>
    /\ sending' = << >>
    /\ UNCHANGED <<now, replied>>

NextRestart ==
    \/ NextCodes
    \/ \E db_ok \in BOOLEAN, drop_ok \in BOOLEAN : init_db(db_ok, drop_ok)

SpecRestart == Init /\ [][NextRestart]_vars

----------------------------------------------------------------------------
(* The gate: every gated handler for one caller other than the            *)
(* administrator, the clock moving in half-TTL steps; the administrator    *)
(* generates a one-day code and the caller redeems it.  The audit insert   *)
(* of a rejected /code fails.  In a gated request the audit insert or the  *)
(* authorization lookup may raise, and the update may carry no message.    *)

Member == "200"
GateCallers == {ADMIN_TELEGRAM_ID, Member}

\* what goes wrong in the requests at the gate
GateFaults == {"none", "log", "authorized", "message"}

NextGate ==
    \/ TickShortStep
    \/ enter_code(Member, <<"AB12CD34">>, "none", FALSE)
    \/ \E c \in GateCallers, fault \in GateFaults :
          generate_code(c, << >>, "AB12CD34", fault)
    \/ \E fault \in GateFaults : list_codes(Member, fault)
    \/ \E fault \in GateFaults : delete_my_data(Member, fault)
    \/ \E fault \in GateFaults : handle_message(Member, fault)
    \/ \E ok \in BOOLEAN : handle_message_resume(Member, ok)
    \/ \E db_ok \in BOOLEAN : save_conversation(Member, db_ok)

SpecGate == Init /\ [][NextGate]_vars

\* The rate limiter under a paced caller: the clock moves in steps of two
\* thirds of the rate-limit window, and the member sends at most one gated
\* request per clock reading.  Two requests in a row are then less than a
\* window apart and three are more than a window apart, so no interval of
\* RateTTL seconds holds more than two of the member's requests.
TickRate == (2 * RateTTL) \div 3

TickRateStep ==
    /\ now \div TickRate < MaxShortTicks
    /\ now' = now + TickRate
    /\ last' = Step("tick", "", "NONE", "", TRUE, "")
    /\ UNCHANGED <<update_queue, sending, replied, lock, threads, codes, users, attempts, conversations, auth_cache,
                   rate_limit_cache, tasks, window_start>>

NextRate ==
    \/ TickRateStep
    \/ enter_code(Member, <<"AB12CD34">>, "none", FALSE)
    \/ \E fault \in Faults : generate_code(ADMIN_TELEGRAM_ID, << >>, "AB12CD34", fault)
    \/ /\ last.op = "tick"
       /\ \E fault \in Faults :
             \/ generate_code(Member, << >>, "AB12CD34", fault)
             \/ list_codes(Member, fault)
             \/ delete_my_data(Member, fault)

SpecRate == Init /\ [][NextRate]_vars

\* Two members behind the gate: the administrator first generates a code
\* with two uses, the members redeem it straight away, and from then on
\* everybody sends /codes.
Members == {"200", "300"}

NextPair ==
    \/ TickShortStep
    \/ /\ last.op = "init"
       /\ generate_code(ADMIN_TELEGRAM_ID, <<Arg(FALSE, 1, "d"), Arg(FALSE, 2, "")>>,
                        "AB12CD34", "none")
    \/ /\ last.op \in {"generate_code", "enter_code"}
       /\ \E c \in Members : enter_code(c, <<"AB12CD34">>, "none", FALSE)
    \/ /\ last.op # "init"
       /\ \E c \in Callers, fault \in {"none", "log"} : list_codes(c, fault)

SpecPair == Init /\ [][NextPair]_vars

\* The dispatcher.  run_polling / run_webhook put the fetched updates on
\* application.update_queue in the order they arrived; with
\* concurrent_updates(True) the application takes them off one by one and
\* starts a task for each without waiting for the previous one.  A task runs
\* without interruption up to its first suspension, which for every handler
\* is the `await reply_text` that sends the reply: there the reply is handed
\* to the library and the task waits until the send has returned, while later
\* tasks start and hand over replies of their own.
Update(c, update_id) == [caller |-> c, update_id |-> update_id]

update_arrives(c) ==
    LET update_id == Len(update_queue) + Len(sending) + Len(replied) + 1 IN
    /\ update_id <= MaxUpdates
    /\ update_queue' = Append(update_queue, Update(c, update_id))
    /\ last' = Step("update", c, "NONE", "", TRUE, "")
    /\ UNCHANGED <<now, codes, users, attempts, conversations, auth_cache,
                   rate_limit_cache, tasks, window_start, lock, threads,
                   sending, replied>>

\* the position in the queue of the update whose task starts next: the tasks
\* start in the order the updates were fetched
next_update(queue) == 1

\* a sequence without its i-th element
Remove(seq, i) ==
    [n \in 1..(Len(seq) - 1) |-> IF n < i THEN seq[n] ELSE seq[n + 1]]

\* A text message is dispatched: the gate and handle_message up to
\* `await reply_text`.  The reply is then in flight (sending); a task that
\* ends with an exception before it has no reply (replied, sent = FALSE).
process_update(fault) ==
    /\ update_queue # << >>
    /\ fault # "reply"
    /\ \E g \in {require_auth(update_queue[next_update(update_queue)].caller,
                                MessageText, fault)} :
       LET i == next_update(update_queue)
           c == update_queue[i].caller
           proceed == g.outcome = "PROCEED"
           stopped == fault \in {"message", "language", "memory"}
           awaits == IF proceed THEN ~stopped ELSE ~g.raised
       IN /\ fault = "none" \/ g.used \/ (proceed /\ stopped)
          /\ auth_cache' = g.auth
          /\ rate_limit_cache' = g.rate
          /\ attempts' = g.log
          /\ Len(attempts') <= MaxAttempts
          /\ tasks' = IF proceed /\ awaits
                      THEN [tasks EXCEPT ![c].reply = @ + 1] ELSE tasks
          /\ last' = Request("handle_message", c, g.outcome, "", fault,
                             ~awaits, "")
          /\ window_start' = FixedWindow(window_start, c, g.outcome, now)
          /\ update_queue' = Remove(update_queue, i)
          /\ sending' = IF awaits
                        THEN Append(sending, [caller |-> c,
                                              update_id |-> update_queue[i].update_id,
                                              outcome |-> g.outcome])
                        ELSE sending
          /\ replied' = IF awaits THEN replied
                        ELSE Append(replied, [caller |-> c,
                                              update_id |-> update_queue[i].update_id,
                                              sent |-> FALSE])
    /\ UNCHANGED <<lock, threads, now, codes, users, conversations>>

\* The reply_text call of a waiting task comes back, in whatever order the
\* sends complete.  ok: the reply was sent, and a task inside handle_message
\* goes on to asyncio.create_task(save_conversation()); otherwise reply_text
\* raised and the task ends with that exception.
reply_text_returns(i, ok) ==
    /\ i \in 1..Len(sending)
    /\ LET u == sending[i]
           c == u.caller
       IN /\ sending' = Remove(sending, i)
          /\ replied' = Append(replied, [caller |-> c, update_id |-> u.update_id,
                                         sent |-> ok])
          /\ tasks' = IF u.outcome # "PROCEED" THEN tasks
                      ELSE IF ok
                      THEN [tasks EXCEPT ![c].reply = @ - 1, ![c].save = @ + 1]
                      ELSE [tasks EXCEPT ![c].reply = @ - 1]
          /\ last' = IF ok
                     THEN Request("reply_text", c, u.outcome,
                                  CASE u.outcome = "DENIED" -> "access_denied"
                                    [] u.outcome = "RATE_LIMITED" -> "rate_limit"
                                    [] OTHER -> "response",
                                  "none", FALSE, "")
                     ELSE Request("reply_text", c, u.outcome, "", "reply", TRUE, "")
    /\ UNCHANGED <<now, codes, users, attempts, conversations, auth_cache,
                   rate_limit_cache, window_start, lock, threads, update_queue>>

\* The dispatch of text messages of the administrator and of one other
\* caller.  Before the first update arrives the administrator may generate
\* a code and the caller redeem it, and the clock moves (the answer cached
\* for the caller before the redemption has to expire); the caller is then
\* admitted.  The save tasks that the handlers spawn run whenever the loop
\* gets to them.
NextOrder ==
    \/ \E c \in GateCallers : update_arrives(c)
    \/ \E fault \in Faults : process_update(fault)
    \/ \E i \in 1..MaxUpdates, ok \in BOOLEAN : reply_text_returns(i, ok)
    \/ \E c \in GateCallers, db_ok \in BOOLEAN : save_conversation(c, db_ok)
    \/ /\ update_queue = << >> /\ sending = << >> /\ replied = << >>
       /\ \/ generate_code(ADMIN_TELEGRAM_ID, << >>, "AB12CD34", "none")
          \/ enter_code(Member, <<"AB12CD34">>, "none", FALSE)
          \/ TickShortStep

SpecOrder == Init /\ [][NextOrder]_vars

----------------------------------------------------------------------------
(* One SimpleCache instance (auth_cache) called from several threads.  A   *)
(* method is: enter `with self._lock`, then its statements on the backing  *)
(* map, and the lock is released when the block is left.  The clock moves  *)
(* between any two steps.                                                  *)

\* a thread calls get(key), set(key, value) or delete(key)
SimpleCache_call(t, op, key, value) ==
    /\ threads[t].pc = "idle"
    /\ op = "set" \/ value = FALSE
    /\ threads' = [threads EXCEPT ![t] = [pc |-> "wait", op |-> op, key |-> key,
                                          value |-> value, seen |-> NoEntry]]
    /\ last' = CacheStep("call", t, key, FALSE, FALSE)
    /\ UNCHANGED <<update_queue, sending, replied, now, codes, users, attempts, conversations, auth_cache,
                   rate_limit_cache, tasks, window_start, lock>>

\* the lock is taken without waiting for its holder
lock_free_always(l) == TRUE

\* a lock that nobody holds can be taken
lock_free(l) == l = "free"

\* `with self._lock:` is entered
SimpleCache_acquire(t) ==
    /\ threads[t].pc = "wait"
    /\ lock_free(lock)
    /\ lock' = t
    /\ threads' = [threads EXCEPT ![t].pc = "locked"]
    /\ last' = CacheStep("acquire", t, threads[t].key, FALSE, FALSE)
    /\ UNCHANGED <<update_queue, sending, replied, now, codes, users, attempts, conversations, auth_cache,
                   rate_limit_cache, tasks, window_start>>

\* a get whose hit restarts the lifetime of the entry
SimpleCache_get_test_refresh(t) ==
    LET k == threads[t].key IN
    /\ threads[t].pc = "locked"
    /\ threads[t].op = "get"
    /\ IF k \in DOMAIN auth_cache /\ ~SimpleCache_hit(auth_cache, k, now)
       THEN /\ threads' = [threads EXCEPT ![t].pc = "del",
                                          ![t].seen = [present |-> TRUE,
                                                       value |-> auth_cache[k].value,
                                                       expiry |-> auth_cache[k].expiry]]
            /\ last' = CacheStep("get_stale", t, k, FALSE, FALSE)
            /\ lock' = lock
            /\ auth_cache' = auth_cache
       ELSE /\ threads' = [threads EXCEPT ![t] = Idle]
            /\ last' = IF SimpleCache_hit(auth_cache, k, now)
                       THEN CacheStep("get", t, k, TRUE, auth_cache[k].value)
                       ELSE CacheStep("get", t, k, FALSE, FALSE)
            /\ lock' = "free"
            /\ auth_cache' = IF SimpleCache_hit(auth_cache, k, now)
                             THEN SimpleCache_set(auth_cache, k, auth_cache[k].value,
                                                  AuthTTL, now)
                             ELSE auth_cache
    /\ UNCHANGED <<update_queue, sending, replied, now, codes, users, attempts, conversations,
                   rate_limit_cache, tasks, window_start>>

\* get: `if key in self._cache` ... `if time.time() < expiry: return value`;
\* a stale entry is left for the `del` that follows
SimpleCache_get_test(t) ==
    LET k == threads[t].key IN
    /\ threads[t].pc = "locked"
    /\ threads[t].op = "get"
    /\ IF k \in DOMAIN auth_cache /\ ~SimpleCache_hit(auth_cache, k, now)
       THEN /\ threads' = [threads EXCEPT ![t].pc = "del",
                                          ![t].seen = [present |-> TRUE,
                                                       value |-> auth_cache[k].value,
                                                       expiry |-> auth_cache[k].expiry]]
            /\ last' = CacheStep("get_stale", t, k, FALSE, FALSE)
            /\ lock' = lock
       ELSE /\ threads' = [threads EXCEPT ![t] = Idle]
            /\ last' = IF SimpleCache_hit(auth_cache, k, now)
                       THEN CacheStep("get", t, k, TRUE, auth_cache[k].value)
                       ELSE CacheStep("get", t, k, FALSE, FALSE)
            /\ lock' = "free"
    /\ UNCHANGED <<update_queue, sending, replied, now, codes, users, attempts, conversations, auth_cache,
                   rate_limit_cache, tasks, window_start>>

\* delete: `if key in self._cache:`
SimpleCache_delete_test(t) ==
    LET k == threads[t].key IN
    /\ threads[t].pc = "locked"
    /\ threads[t].op = "delete"
    /\ IF k \in DOMAIN auth_cache
       THEN /\ threads' = [threads EXCEPT ![t].pc = "del",
                                          ![t].seen = [present |-> TRUE,
                                                       value |-> auth_cache[k].value,
                                                       expiry |-> auth_cache[k].expiry]]
            /\ last' = CacheStep("delete_test", t, k, FALSE, FALSE)
            /\ lock' = lock
       ELSE /\ threads' = [threads EXCEPT ![t] = Idle]
            /\ last' = CacheStep("delete", t, k, FALSE, FALSE)
            /\ lock' = "free"
    /\ UNCHANGED <<update_queue, sending, replied, now, codes, users, attempts, conversations, auth_cache,
                   rate_limit_cache, tasks, window_start>>

\* get and delete: `del self._cache[key]` (KeyError when the key is gone), then
\* the method returns
SimpleCache_del(t) ==
    LET k == threads[t].key IN
    /\ threads[t].pc = "del"
    /\ IF k \in DOMAIN auth_cache
       THEN /\ auth_cache' = SimpleCache_delete(auth_cache, k)
            /\ last' = CacheStep(IF threads[t].op = "get" THEN "evict" ELSE "delete",
                                 t, k, FALSE, FALSE)
       ELSE /\ auth_cache' = auth_cache
            /\ last' = CacheStep("KeyError", t, k, FALSE, FALSE)
    /\ threads' = [threads EXCEPT ![t] = Idle]
    /\ lock' = "free"
    /\ UNCHANGED <<update_queue, sending, replied, now, codes, users, attempts, conversations, rate_limit_cache,
                   tasks, window_start>>

\* set: `self._cache[key] = (value, time.time() + ttl)`, ttl = self._ttl
SimpleCache_set_store(t) ==
    LET k == threads[t].key IN
    /\ threads[t].pc = "locked"
    /\ threads[t].op = "set"
    /\ auth_cache' = SimpleCache_set(auth_cache, k, threads[t].value, AuthTTL, now)
    /\ last' = CacheStep("set", t, k, FALSE, threads[t].value)
    /\ threads' = [threads EXCEPT ![t] = Idle]
    /\ lock' = "free"
    /\ UNCHANGED <<update_queue, sending, replied, now, codes, users, attempts, conversations, rate_limit_cache,
                   tasks, window_start>>

\* the clock, in the record shape of the cache steps
CacheTick ==
    /\ now \div TickShort < MaxShortTicks
    /\ now' = now + TickShort
    /\ last' = CacheStep("tick", "", "", FALSE, FALSE)
    /\ UNCHANGED <<update_queue, sending, replied, codes, users, attempts, conversations, auth_cache,
                   rate_limit_cache, tasks, window_start, lock, threads>>

InitCache ==
    /\ now = 0
    /\ codes = << >>
    /\ users = << >>
    /\ attempts = << >>
    /\ conversations = [c \in Callers |-> 0]
    /\ auth_cache = << >>
    /\ rate_limit_cache = << >>
    /\ tasks = [c \in Callers |-> [reply |-> 0, save |-> 0]]
    /\ last = CacheStep("init", "", "", FALSE, FALSE)
    /\ window_start = << >>
    /\ lock = "free"
    /\ threads = [t \in Threads |-> Idle]
    /\ update_queue = << >>
    /\ sending = << >>
    /\ replied = << >>

NextCache ==
    \/ CacheTick
    \/ \E t \in Threads, op \in CacheOps, value \in BOOLEAN :
          SimpleCache_call(t, op, CacheKey, value)
    \/ \E t \in Threads : SimpleCache_acquire(t)
    \/ \E t \in Threads : SimpleCache_get_test(t)
    \/ \E t \in Threads : SimpleCache_delete_test(t)
    \/ \E t \in Threads : SimpleCache_del(t)
    \/ \E t \in Threads : SimpleCache_set_store(t)

SpecCache == InitCache /\ [][NextCache]_vars

----------------------------------------------------------------------------
(* parse_duration and format_duration on their own: a duration text is     *)
(* drawn, parsed, and the result is formatted.                             *)

MonthUnits == {"m", "mo", "month", "months"}
YearUnits == {"y", "yr", "year", "years"}
DayUnits == {"d", "day", "days"}
HourUnits == {"h", "hr", "hour", "hours"}
\* what follows the digits of a duration text: the units, some in upper
\* case, nothing, and texts that are no unit
DurationSuffixes ==
    MonthUnits \cup YearUnits \cup DayUnits \cup HourUnits
    \cup {"M", "D", "H", "", ".", "w", "bogus"}
\* texts such as "3m", "-3m", "m" (num = -1: no digits), "12", "bogus"
DurationInputs ==
    {Arg(neg, num, suffix) : neg \in BOOLEAN, num \in -1..MaxNum,
                             suffix \in DurationSuffixes}

DurationStep(op, text, td, shown) ==
    [op |-> op, text |-> text, td |-> td, shown |-> shown]

InitDuration ==
    /\ now = 0
    /\ codes = << >>
    /\ users = << >>
    /\ attempts = << >>
    /\ conversations = [c \in Callers |-> 0]
    /\ auth_cache = << >>
    /\ rate_limit_cache = << >>
    /\ tasks = [c \in Callers |-> [reply |-> 0, save |-> 0]]
    /\ last \in {DurationStep("input", text, 0, Arg(FALSE, -1, "")) :
                    text \in DurationInputs}
    /\ window_start = << >>
    /\ lock = "free"
    /\ threads = [t \in Threads |-> Idle]
    /\ update_queue = << >>
    /\ sending = << >>
    /\ replied = << >>

parse_duration_call ==
    /\ last.op = "input"
    /\ last' = DurationStep("parse_duration", last.text, parse_duration(last.text),
                            last.shown)
    /\ UNCHANGED <<update_queue, sending, replied, now, codes, users, attempts, conversations, auth_cache,
                   rate_limit_cache, tasks, window_start, lock, threads>>

format_duration_call ==
    /\ last.op = "parse_duration"
    /\ last' = DurationStep("format_duration", last.text, last.td,
                            format_duration(last.td))
    /\ UNCHANGED <<update_queue, sending, replied, now, codes, users, attempts, conversations, auth_cache,
                   rate_limit_cache, tasks, window_start, lock, threads>>

NextDuration ==
    \/ parse_duration_call
    \/ format_duration_call

SpecDuration == InitDuration /\ [][NextDuration]_vars

----------------------------------------------------------------------------
(* The store functions of the referral codes called one at a time, in any  *)
(* order, on the rows their own calls produce: create_referral_code,       *)
(* validate_referral_code and use_referral_code each open a session, run   *)
(* and close it; so does authorize_user, which no handler calls.  last     *)
(* records the call and what it returned.                                  *)

StoreCallers == {"200", "300"}
StoreDurations == {Arg(FALSE, 23, "h"), Arg(FALSE, 1, "d")}
StoreMaxUses == {1, 2}

\* the users table at the start: empty, or the row of a caller that was there
\* before init_db added the is_authorized column (DEFAULT FALSE)
StoreUsers == {<< >>, [c \in {"200"} |-> [is_authorized |-> FALSE]]}
\* the auth cache at the start: empty, or the answer cached for that caller
StoreAuthCaches ==
    {<< >>, [c \in {"200"} |-> [value |-> FALSE, expiry |-> AuthTTL]]}

StoreStep(op, code, user_id, result, reason, db_ok) ==
    [op |-> op, code |-> code, user_id |-> user_id, result |-> result,
     reason |-> reason, db_ok |-> db_ok]

InitStore ==
    /\ now = 0
    /\ codes = << >>
    /\ users \in StoreUsers
    /\ attempts = << >>
    /\ conversations = [c \in Callers |-> 0]
    /\ auth_cache \in StoreAuthCaches
    /\ rate_limit_cache = << >>
    /\ tasks = [c \in Callers |-> [reply |-> 0, save |-> 0]]
    /\ last = StoreStep("init", "", "", FALSE, "", TRUE)
    /\ window_start = << >>
    /\ lock = "free"
    /\ threads = [t \in Threads |-> Idle]
    /\ update_queue = << >>
    /\ sending = << >>
    /\ replied = << >>

StoreTick ==
    /\ now \div DaySeconds <= MaxDays
    /\ now' = now + DaySeconds
    /\ last' = StoreStep("tick", "", "", FALSE, "", TRUE)
    /\ UNCHANGED <<update_queue, sending, replied, codes, users, attempts, conversations, auth_cache,
                   rate_limit_cache, tasks, window_start, lock, threads>>

create_referral_code_call(code, duration, max_uses, db_ok) ==
    LET r == create_referral_code(codes, code, ADMIN_TELEGRAM_ID,
                                  parse_duration(duration), max_uses, now, db_ok)
    IN /\ codes' = r.codes
       /\ last' = StoreStep("create_referral_code", code, ADMIN_TELEGRAM_ID,
                            r.ok, "", db_ok)
       /\ UNCHANGED <<update_queue, sending, replied, now, users, attempts, conversations, auth_cache,
                      rate_limit_cache, tasks, window_start, lock, threads>>

validate_referral_code_call(code, user_id, db_ok) ==
    LET r == validate_referral_code(codes, code, user_id, now, db_ok)
    IN /\ codes' = r.codes
       /\ last' = StoreStep("validate_referral_code", code, user_id,
                            r.valid, r.reason, db_ok)
       /\ UNCHANGED <<update_queue, sending, replied, now, users, attempts, conversations, auth_cache,
                      rate_limit_cache, tasks, window_start, lock, threads>>

\* the counter of a code is followed one redemption past its max_uses
use_referral_code_call(code, user_id, db_ok) ==
    LET r == use_referral_code(codes, code, user_id, db_ok)
    IN /\ upper(code) \in DOMAIN codes
          => codes[upper(code)].used_count <= codes[upper(code)].max_uses
       /\ codes' = r.codes
       /\ last' = StoreStep("use_referral_code", code, user_id,
                            r.result, "", db_ok)
       /\ UNCHANGED <<update_queue, sending, replied, now, users, attempts, conversations, auth_cache,
                      rate_limit_cache, tasks, window_start, lock, threads>>

authorize_user_call(telegram_id, db_ok) ==
    LET r == authorize_user(users, auth_cache, telegram_id, db_ok)
    IN /\ users' = r.users
       /\ auth_cache' = r.cache
       /\ last' = StoreStep("authorize_user", "", telegram_id, r.result, "", db_ok)
       /\ UNCHANGED <<update_queue, sending, replied, now, codes, attempts, conversations,
                      rate_limit_cache, tasks, window_start, lock, threads>>

NextStore ==
    \/ StoreTick
    \/ \E telegram_id \in StoreCallers, db_ok \in BOOLEAN :
          authorize_user_call(telegram_id, db_ok)
    \/ \E duration \in StoreDurations, max_uses \in StoreMaxUses, db_ok \in BOOLEAN :
          create_referral_code_call("AB12CD34", duration, max_uses, db_ok)
    \/ \E code \in {"ab12cd34", "ZZ99YY88"}, user_id \in StoreCallers,
          db_ok \in BOOLEAN :
          validate_referral_code_call(code, user_id, db_ok)
    \/ \E code \in {"ab12cd34", "ZZ99YY88"}, user_id \in StoreCallers,
          db_ok \in BOOLEAN :
          use_referral_code_call(code, user_id, db_ok)

SpecStore == InitStore /\ [][NextStore]_vars

----------------------------------------------------------------------------
(* Claims.  A request is read with last' (what the step did) and the       *)
(* unprimed variables (the state it started from).  Unless a claim is      *)
(* about a call that fails, it is stated for requests in which no call     *)
(* raises (fault = "none").                                                *)

CodeTexts == {"AB12CD34", "ab12cd34", "ZZ99YY88"}
GatedOps == {"handle_message", "generate_code", "list_codes", "delete_my_data"}

\* the step is a /code request with an argument that names an existing code
EnterCodeStep == last'.op = "enter_code" /\ last'.arg \in DOMAIN codes

\* the step is a request of a caller other than the administrator at the gate
GateStep == last'.op \in GatedOps /\ ~check_admin(last'.caller)

\* what the caller's is_user_authorized call answers in the current state
SeenAuthorized(c) == is_user_authorized(users, auth_cache, c, now).result

NoRedemption(k) ==
    /\ codes'[k].used_count = codes[k].used_count
    /\ codes'[k].used_by = codes[k].used_by

\* C1: for every referral code, used_count <= max_uses in every reachable
\* state, whatever the interleaving of the redemption attempts.
C1_UsedWithinMax ==
    \A k \in DOMAIN codes : codes[k].used_count <= codes[k].max_uses

\* C2: validate_referral_code(code, caller) returns valid if and only if the
\* code exists, is active, now < expires_at, used_count < max_uses and the
\* caller is not in used_by; in particular not at now = expires_at.
C2_ValidIff ==
    \A c \in Callers, text \in CodeTexts :
        validate_referral_code(codes, text, c, now, TRUE).valid
        <=> /\ upper(text) \in DOMAIN codes
            /\ codes[upper(text)].is_active
            /\ now < codes[upper(text)].expires_at
            /\ codes[upper(text)].used_count < codes[upper(text)].max_uses
            /\ c \notin Range(codes[upper(text)].used_by)

\* C3: a code whose expires_at is in the past never validates as usable:
\* every redemption attempt on it, first or repeated, is rejected with the
\* code_expired reason and records no redemption.
C3_ExpiredRepliesExpired ==
    [][(/\ EnterCodeStep
        /\ last'.fault = "none"
        /\ ~SeenAuthorized(last'.caller)
        /\ now > codes[last'.arg].expires_at)
       => (last'.reply = "code_expired" /\ NoRedemption(last'.arg))]_vars

\* C4: a caller who redeemed code X cannot redeem X again: every later attempt
\* on X by that caller is rejected with the code_used reason, even if
\* used_count < max_uses.
C4_RepeatRepliesCodeUsed ==
    [][(/\ EnterCodeStep
        /\ last'.fault = "none"
        /\ last'.caller \in Range(codes[last'.arg].used_by))
       => last'.reply = "code_used"]_vars

\* C5: once the redemption that brings used_count to max_uses commits, the
\* code is inactive, and every later attempt by a caller who has not redeemed
\* it is rejected with the code_max_uses reason.
C5_ExhaustedRepliesMaxUses ==
    /\ [](\A k \in DOMAIN codes :
            (codes[k].used_count >= 1 /\ codes[k].used_count = codes[k].max_uses)
            => ~codes[k].is_active)
    /\ [][(/\ EnterCodeStep
           /\ last'.fault = "none"
           /\ ~SeenAuthorized(last'.caller)
           /\ codes[last'.arg].used_count >= 1
           /\ codes[last'.arg].used_count = codes[last'.arg].max_uses
           /\ now <= codes[last'.arg].expires_at
           /\ last'.caller \notin Range(codes[last'.arg].used_by))
          => last'.reply = "code_max_uses"]_vars

\* the step is a request of the administrator at the gate
AdminGateStep == last'.op \in GatedOps /\ last'.caller = ADMIN_TELEGRAM_ID

\* the gate denied or limited nothing: the reply is one of the handler's own
HandlerReplies ==
    {"response", "code_generated", "usage", "error", "active_codes", "no_codes",
     "data_deleted"}

\* C6: every request of the administrator through the gate yields PROCEED and
\* the wrapped handler answers, whatever the administrator's users row, auth
\* cache entry and rate counter; the gate records no attempt and counts no
\* request for it.
C6_AdminProceeds ==
    [][AdminGateStep
       => /\ last'.outcome = "PROCEED"
          /\ last'.reply \in HandlerReplies
          /\ attempts' = attempts
          /\ rate_limit_cache' = rate_limit_cache
          /\ ADMIN_TELEGRAM_ID \notin DOMAIN rate_limit_cache']_vars

\* C6 happens: the administrator, with no row in users and a live cached
\* "not authorized" answer, just passed the gate.
C6_Witness ==
    /\ last.op \in GatedOps
    /\ last.caller = ADMIN_TELEGRAM_ID
    /\ last.outcome = "PROCEED"
    /\ ADMIN_TELEGRAM_ID \notin DOMAIN users
    /\ SimpleCache_hit(auth_cache, ADMIN_TELEGRAM_ID, now)
    /\ ~auth_cache[ADMIN_TELEGRAM_ID].value

\* C7: for a caller other than the administrator who is not authorized, the
\* gate does not invoke the handler: it decides DENIED, appends exactly one
\* unauthorized_attempts record of the caller (message capped at 500
\* characters) after the existing records, and nothing else of the store, of
\* the rate counters or of the pending tasks changes; the access_denied
\* reply is what an update that carries a message is answered with.
C7_DeniedLogsOnce ==
    [][(/\ GateStep
        /\ last'.fault \in {"none", "message"}
        /\ ~SeenAuthorized(last'.caller))
       => /\ last'.outcome = "DENIED"
          /\ last'.fault = "none" => last'.reply = "access_denied"
          /\ last'.fault = "message" => last'.reply = ""
          /\ Len(attempts') = Len(attempts) + 1
          /\ SubSeq(attempts', 1, Len(attempts)) = attempts
          /\ attempts'[Len(attempts')].telegram_id = last'.caller
          /\ attempts'[Len(attempts')].message.len <= MessageCap
          /\ UNCHANGED <<codes, users, conversations, tasks, rate_limit_cache>>]_vars

\* C7 happens: a denied request was just logged behind an older record, its
\* message cut to the cap.
C7_Witness ==
    /\ last.op = "handle_message"
    /\ last.outcome = "DENIED"
    /\ last.fault = "none"
    /\ Len(attempts) >= 2
    /\ attempts[Len(attempts)].telegram_id = last.caller
    /\ attempts[Len(attempts)].message.len = MessageCap

\* the caller's live rate counter (0 without a live entry)
RateCount(c) ==
    IF SimpleCache_hit(rate_limit_cache, c, now) THEN rate_limit_cache[c].value ELSE 0

\* C8: for an authorized caller other than the administrator whose counter is
\* at or over the limit, the gate answers rate_limit, does not invoke the
\* handler and records no attempt; and a request that is not authorized does
\* not touch the rate counters.
C8_LimitedAfterAuth ==
    /\ [][(/\ GateStep
           /\ last'.fault # "authorized"
           /\ SeenAuthorized(last'.caller)
           /\ RateCount(last'.caller) >= max_requests)
          => /\ last'.outcome = "RATE_LIMITED"
             /\ last'.fault = "none" => last'.reply = "rate_limit"
             /\ last'.reply \in {"rate_limit", ""}
             /\ UNCHANGED <<attempts, codes, users, conversations, tasks,
                            rate_limit_cache>>]_vars
    /\ [][(GateStep /\ ~SeenAuthorized(last'.caller))
          => rate_limit_cache' = rate_limit_cache]_vars

\* C8 happens: an authorized caller was just answered rate_limit.
C8_Witness ==
    /\ last.op \in GatedOps
    /\ last.outcome = "RATE_LIMITED"
    /\ last.caller \in DOMAIN users
    /\ RateCount(last.caller) = max_requests

\* C9: the limiter rejects a request only inside the window in which it has
\* admitted `limit` requests: a rejected request lies before the end of the
\* caller's current window, with the counter at the limit, and once the
\* window has elapsed the next request is admitted.
C9_RejectsOnlyInsideWindow ==
    (last.outcome = "RATE_LIMITED")
    => /\ last.caller \in DOMAIN window_start
       /\ now < window_start[last.caller] + RateTTL
       /\ RateCount(last.caller) = max_requests

\* C10: the window is fixed: the counter of a caller resets RateTTL seconds
\* after the first admitted request of its window, and later admitted requests
\* of the window do not move that time.
C10_FixedWindow ==
    \A c \in DOMAIN rate_limit_cache :
        SimpleCache_hit(rate_limit_cache, c, now)
        => /\ c \in DOMAIN window_start
           /\ rate_limit_cache[c].expiry = window_start[c] + RateTTL

\* C11: SimpleCache.get(key) at a time now >= expiry of the entry returns None
\* exactly like a miss and removes the stale entry from the backing map, with
\* no delete ever called; at a time now < expiry it returns the stored value.
C11_GetAfterExpiryIsMiss ==
    /\ [][(last'.op \in {"get", "get_stale"})
          => LET k == last'.key IN
             IF k \notin DOMAIN auth_cache
             THEN last'.op = "get" /\ ~last'.hit /\ auth_cache' = auth_cache
             ELSE IF now < auth_cache[k].expiry
             THEN /\ last'.op = "get"
                  /\ last'.hit
                  /\ last'.value = auth_cache[k].value
                  /\ auth_cache' = auth_cache
             ELSE /\ last'.op = "get_stale"
                  /\ ~last'.hit
                  /\ threads'[last'.thread].pc = "del"]_vars
    /\ [][(/\ last'.thread \in Threads
           /\ threads[last'.thread].pc = "del"
           /\ threads[last'.thread].op = "get")
          => (/\ last'.op = "evict"
              /\ ~last'.hit
              /\ last'.key \notin DOMAIN auth_cache')]_vars

\* C11 happens: a get at exactly now = expiry found the entry stale and is
\* about to remove it.
C11_Witness ==
    /\ last.op = "get_stale"
    /\ last.key \in DOMAIN auth_cache
    /\ auth_cache[last.key].expiry = now
    /\ threads[last.thread].pc = "del"

\* the text is digits followed by a unit in lower case
PlainNumber(text) == ~text.neg /\ text.num >= 0

\* C12: parse_duration maps "<n>m" (mo, month, months) to exactly 30*n days,
\* "<n>y" (yr, year, years) to exactly 365*n days, "<n>d" (day, days) to n
\* days, and a text that matches no pattern to the 1-day fallback.
C12_ParseDuration ==
    (last.op = "parse_duration")
    => LET text == last.text
           n == text.num
       IN /\ (PlainNumber(text) /\ text.suffix \in MonthUnits)
                => last.td = 30 * n * DaySeconds
          /\ (PlainNumber(text) /\ text.suffix \in YearUnits)
                => last.td = 365 * n * DaySeconds
          /\ (PlainNumber(text) /\ text.suffix \in DayUnits)
                => last.td = n * DaySeconds
          /\ (~PlainNumber(text) \/ text.suffix \in {"", ".", "w", "bogus"})
                => last.td = DaySeconds

\* C12 happens: "3m" was parsed to 90 days, and "bogus" to one day in
\* another behaviour.
C12_Witness ==
    /\ last.op = "parse_duration"
    /\ last.text = Arg(FALSE, 3, "m")
    /\ last.td = 90 * DaySeconds

\* C13: format_duration renders the largest applicable unit (years from 365
\* days, else months from 30 days, else days), and it inverts parse_duration
\* at the unit boundaries: "<n>y" for n >= 1, "<n>m" for 1 <= n <= 12 and
\* "<n>d" for 1 <= n < 30 come back as they were.
C13_FormatInvertsParse ==
    (last.op = "format_duration")
    => LET text == last.text
           n == text.num
           days == last.td \div DaySeconds
       IN /\ days >= 365 => last.shown = Arg(FALSE, days \div 365, "y")
          /\ (days >= 30 /\ days < 365) => last.shown = Arg(FALSE, days \div 30, "m")
          /\ days < 30 => last.shown = Arg(FALSE, days, "d")
          /\ (PlainNumber(text) /\ text.suffix = "y" /\ n >= 1)
                => last.shown = text
          /\ (PlainNumber(text) /\ text.suffix = "m" /\ n >= 1 /\ n <= 12)
                => last.shown = text
          /\ (PlainNumber(text) /\ text.suffix = "d" /\ n >= 1 /\ n < 30)
                => last.shown = text

\* C13 happens: "12m" was parsed and formatted back to "12m".
C13_Witness ==
    /\ last.op = "format_duration"
    /\ last.text = Arg(FALSE, 12, "m")
    /\ last.shown = Arg(FALSE, 12, "m")

\* C15: tokens are unique in the store (codes is keyed by the token, as the
\* unique column is), and a /gencode whose token is already taken is not
\* silently accepted: it answers with the error reply, leaves every existing
\* code as it was and adds no code; only a token that was free is reported as
\* generated, and it is the one code added.
C15_CollisionReported ==
    [][(last'.op = "generate_code")
       => /\ \A k \in DOMAIN codes : k \in DOMAIN codes' /\ codes'[k] = codes[k]
          /\ (last'.reply = "code_generated")
                => /\ last'.arg \notin DOMAIN codes
                   /\ DOMAIN codes' = DOMAIN codes \cup {last'.arg}
          /\ (last'.reply # "code_generated" /\ ~last'.raised) => codes' = codes]_vars

\* C15 happens: the store works, the token drawn by /gencode was taken, and
\* the administrator was answered with the error reply.
C15_Witness ==
    /\ last.op = "generate_code"
    /\ last.caller = ADMIN_TELEGRAM_ID
    /\ last.fault = "none"
    /\ last.reply = "error"
    /\ codes # << >>

\* C16: a store failure during code validation, redemption or generation is
\* returned to the caller as a failure: the request is answered with the
\* error reply, never with code_accepted or code_generated, it authorizes
\* nobody and creates no code.
C16_StoreFailureReported ==
    /\ [][(/\ last'.op = "enter_code"
           /\ last'.fault \in {"validate", "use", "authorize"})
          => /\ last'.reply = "error"
             /\ ~last'.raised
             /\ users' = users]_vars
    /\ [][(/\ last'.op = "generate_code"
           /\ last'.caller = ADMIN_TELEGRAM_ID
           /\ last'.fault = "create")
          => /\ last'.reply = "error"
             /\ ~last'.raised
             /\ codes' = codes]_vars

\* C16 happens: the store failed during the /code of a caller without a
\* users row for an existing, active, unexpired code, and the caller was
\* answered with the error reply.
C16_Witness ==
    /\ last.op = "enter_code"
    /\ ~last.db_ok
    /\ last.reply = "error"
    /\ last.arg \in DOMAIN codes
    /\ last.caller \notin DOMAIN users
    /\ codes[last.arg].is_active
    /\ now <= codes[last.arg].expires_at

\* the threads inside a `with self._lock` block
InSection == {t \in Threads : threads[t].pc \in {"locked", "del"}}

\* C17: SimpleCache is safe for concurrent callers.  At most one thread is
\* inside the map-accessing section, and it is the holder of the lock; the
\* backing map changes only in a step of that thread; and each operation takes
\* effect atomically: the entry a get or delete removes is the entry it
\* tested, and no `del` meets a key that is gone (KeyError).
C17_CacheMutualExclusion ==
    /\ [](/\ Cardinality(InSection) <= 1
          /\ InSection = IF lock = "free" THEN {} ELSE {lock}
          /\ last.op # "KeyError")
    /\ [][(auth_cache' # auth_cache)
          => /\ last'.thread = lock
             /\ InSection = {lock}
             /\ last'.op \in {"set", "evict", "delete"}]_vars
    /\ [][(last'.thread \in Threads /\ threads[last'.thread].pc = "del")
          => LET t == last'.thread
                 k == threads[t].key
             IN /\ k \in DOMAIN auth_cache
                /\ auth_cache[k].value = threads[t].seen.value
                /\ auth_cache[k].expiry = threads[t].seen.expiry
                /\ k \notin DOMAIN auth_cache']_vars

\* C17 happens: one thread is between the test and the `del` of a get on a
\* stale entry while the other thread waits at the lock with a set of the
\* same key.
C17_Witness ==
    \E t, w \in Threads :
        /\ threads[t].pc = "del"
        /\ threads[t].op = "get"
        /\ lock = t
        /\ threads[w].pc = "wait"
        /\ threads[w].op = "set"
        /\ threads[w].key = threads[t].key

\* C18: every code created through /gencode has max_uses >= 1, whatever
\* arguments the administrator passes.
C18_MaxUsesPositive ==
    \A k \in DOMAIN codes : codes[k].max_uses >= 1

\* the duration a text asks for, in seconds: months of 30 days, years of 365
\* days, days, hours of 3600 seconds; the 1-day fallback for any other text
RequestedDuration(text) ==
    LET n == text.num
        u == lower(text.suffix)
    IN IF PlainNumber(text) /\ u \in MonthUnits THEN 30 * n * DaySeconds
       ELSE IF PlainNumber(text) /\ u \in YearUnits THEN 365 * n * DaySeconds
       ELSE IF PlainNumber(text) /\ u \in DayUnits THEN n * DaySeconds
       ELSE IF PlainNumber(text) /\ u \in HourUnits THEN n * (DaySeconds \div 24)
       ELSE DaySeconds

\* C19: a code created through /gencode expires at its creation time plus the
\* requested duration, for every accepted duration text, hours included: the
\* created code is the one some accepted argument list asks for.
C19_ExpiresAfterRequested ==
    [][(last'.op = "generate_code" /\ last'.reply = "code_generated")
       => \E args \in GenArgs :
             LET p == gencode_args(args) IN
             /\ p.ok
             /\ codes'[last'.arg].max_uses = p.max_uses
             /\ codes'[last'.arg].expires_at = now + RequestedDuration(p.duration_str)]_vars

\* C20: in handle_message the conversation record of a message is persisted
\* only after the reply was sent: a record is added only by the save task, the
\* task is spawned only by a handler that has replied, and a handler waits to
\* spawn it only after passing the gate and replying.  A failing save is
\* swallowed: it ends the task and leaves the store as it was.
C20_ReplyFirstPersistAfter ==
    /\ [][\A c \in Callers :
            /\ (conversations'[c] > conversations[c])
                 => /\ last'.op = "save_conversation"
                    /\ last'.caller = c
                    /\ last'.fault = "none"
                    /\ tasks[c].save > 0
                    /\ tasks'[c].save = tasks[c].save - 1
                    /\ conversations'[c] = conversations[c] + 1
            /\ (tasks'[c].save > tasks[c].save)
                 => /\ last'.op = "create_task"
                    /\ tasks[c].reply > 0
                    /\ tasks'[c].reply = tasks[c].reply - 1
            /\ (tasks'[c].reply > tasks[c].reply)
                 => /\ last'.op = "handle_message"
                    /\ last'.caller = c
                    /\ last'.outcome = "PROCEED"
                    /\ last'.reply = "response"]_vars
    /\ [][(last'.op = "save_conversation" /\ ~last'.db_ok)
          => /\ UNCHANGED <<conversations, users, codes, attempts>>
             /\ tasks'[last'.caller].save = tasks[last'.caller].save - 1]_vars

\* C20 happens: the reply to a message was sent, its save failed, and no
\* conversation row and no task is left.
C20_Witness ==
    /\ last.op = "save_conversation"
    /\ ~last.db_ok
    /\ conversations[last.caller] = 0
    /\ tasks[last.caller] = [reply |-> 0, save |-> 0]

\* the step is a call of use_referral_code with the text of an existing code
UseCall(k) ==
    /\ last'.op = "use_referral_code"
    /\ upper(last'.code) = k
    /\ k \in DOMAIN codes

\* the step is a call of validate_referral_code with the text of an existing code
ValidateCall(k) ==
    /\ last'.op = "validate_referral_code"
    /\ upper(last'.code) = k
    /\ k \in DOMAIN codes

\* C21: use_referral_code called on a code whose used_count is already
\* >= max_uses, or that is inactive, returns False and leaves used_count and
\* used_by as they were.
C21_UseRechecksCapacity ==
    [][\A k \in DOMAIN codes :
          UseCall(k) /\ (codes[k].used_count >= codes[k].max_uses
                            \/ ~codes[k].is_active)
             => ~last'.result /\ NoRedemption(k)]_vars

\* C22: a use_referral_code call that returns True has, in one step, added
\* one to used_count, appended the caller to used_by and cleared is_active
\* when the new count reaches max_uses (and left the flag alone otherwise),
\* with no other row touched; a call that returns False left the store as
\* it was.
C22_UseAllOrNothing ==
    [][/\ \A k \in DOMAIN codes :
             UseCall(k) /\ last'.result
                => /\ codes'[k].used_count = codes[k].used_count + 1
                   /\ codes'[k].used_by = Append(codes[k].used_by, last'.user_id)
                   /\ codes'[k].is_active
                        = (codes[k].is_active
                              /\ codes'[k].used_count < codes[k].max_uses)
                   /\ codes' = [codes EXCEPT ![k] = codes'[k]]
                   /\ codes'[k] = [codes[k] EXCEPT
                                     !.used_count = codes'[k].used_count,
                                     !.used_by = codes'[k].used_by,
                                     !.is_active = codes'[k].is_active]
       /\ last'.op = "use_referral_code" /\ ~last'.result => codes' = codes]_vars

\* a call has just redeemed the last of the two uses of a code
C22_Witness ==
    /\ last.op = "use_referral_code"
    /\ last.result
    /\ upper(last.code) \in DOMAIN codes
    /\ codes[upper(last.code)].max_uses = 2
    /\ codes[upper(last.code)].used_count = 2
    /\ ~codes[upper(last.code)].is_active

\* C23: a validate_referral_code call writes only the is_active flag of the
\* code it was given, and only to clear it, exactly when it finds that code
\* active and past its expiry; every other call leaves the store as it was.
C23_ValidateWritesOnlyExpiry ==
    [][last'.op = "validate_referral_code"
          => IF /\ last'.db_ok
                /\ upper(last'.code) \in DOMAIN codes
                /\ codes[upper(last'.code)].is_active
                /\ now > codes[upper(last'.code)].expires_at
             THEN /\ last'.reason = "code_expired"
                  /\ codes' = [codes EXCEPT ![upper(last'.code)].is_active = FALSE]
             ELSE codes' = codes]_vars

\* a call has just deactivated a code with uses left, and a later call found
\* it inactive
C23_Witness ==
    /\ last.op = "validate_referral_code"
    /\ last.reason \in {"code_expired", "code_deactivated"}
    /\ upper(last.code) \in DOMAIN codes
    /\ ~codes[upper(last.code)].is_active
    /\ codes[upper(last.code)].used_count < codes[upper(last.code)].max_uses

\* C24: two validate_referral_code calls in a row, for the same code and
\* caller and at the same clock reading, return the same (valid, reason).
C24_ValidateIdempotent ==
    [][(/\ last.op = "validate_referral_code"
        /\ last'.op = "validate_referral_code"
        /\ last'.code = last.code
        /\ last'.user_id = last.user_id
        /\ last.db_ok /\ last'.db_ok)
          => last'.result = last.result /\ last'.reason = last.reason]_vars

\* C25: in every step, each referral code keeps its row, token, created_by,
\* expires_at and max_uses; its used_count does not decrease and is_active
\* does not go from false to true.
C25_CodesMonotonic ==
    [][\A k \in DOMAIN codes :
          /\ k \in DOMAIN codes'
          /\ codes'[k].created_by = codes[k].created_by
          /\ codes'[k].expires_at = codes[k].expires_at
          /\ codes'[k].max_uses = codes[k].max_uses
          /\ codes'[k].used_count >= codes[k].used_count
          /\ ~codes[k].is_active => ~codes'[k].is_active]_vars

\* /gencode has just drawn the token of a code that was redeemed and is
\* inactive, and the row is as it was
C25_Witness ==
    /\ last.op = "generate_code"
    /\ last.reply = "error"
    /\ last.fault = "none"
    /\ \E k \in DOMAIN codes : codes[k].used_count >= 1 /\ ~codes[k].is_active

\* C26: every referral code was created by the administrator, and a /gencode
\* request of any other caller, authorized or not, leaves the code table as
\* it was and is answered by the gate or with admin_only.
C26_OnlyAdminCreates ==
    /\ [](\A k \in DOMAIN codes : codes[k].created_by = ADMIN_TELEGRAM_ID)
    /\ [][last'.op = "generate_code" /\ last'.caller # ADMIN_TELEGRAM_ID
             => /\ codes' = codes
                /\ last'.arg = ""
                /\ last'.reply \in {"access_denied", "rate_limit", "admin_only", ""}
                /\ last'.fault = "none" => last'.reply # ""]_vars

\* an authorized caller other than the administrator passed the gate with
\* /gencode and was answered admin_only
C26_Witness ==
    /\ last.op = "generate_code"
    /\ last.caller # ADMIN_TELEGRAM_ID
    /\ last.outcome = "PROCEED"
    /\ last.reply = "admin_only"
    /\ last.caller \in DOMAIN users
    /\ users[last.caller].is_authorized

\* the caller has a users row with is_authorized set
Authorized(us, c) == c \in DOMAIN us /\ us[c].is_authorized

\* C14: is_authorized of a caller is false at first (no users row) and
\* becomes true only through an accepted /code of that caller, or for the
\* administrator through the gate's bypass; so every authorized caller other
\* than the administrator is in used_by of some code.
C14_AuthorizedByRedemption ==
    /\ [](\A c \in DOMAIN users :
            (users[c].is_authorized /\ c # ADMIN_TELEGRAM_ID)
            => \E k \in DOMAIN codes : c \in Range(codes[k].used_by))
    /\ [][\A c \in Callers :
            (~Authorized(users, c) /\ Authorized(users', c))
            => \/ /\ last'.op = "enter_code"
                  /\ last'.caller = c
                  /\ last'.reply = "code_accepted" \/ last'.fault \in DeliveryFaults
                  /\ c \in Range(codes'[last'.arg].used_by)
               \/ c = ADMIN_TELEGRAM_ID /\ last'.op = "save_conversation"]_vars

\* C14 happens: a caller who redeemed a code is authorized and the save of
\* one of its messages just ran.
C14_Witness ==
    /\ last.op = "save_conversation"
    /\ last.fault = "none"
    /\ last.caller # ADMIN_TELEGRAM_ID
    /\ Authorized(users, last.caller)
    /\ \E k \in DOMAIN codes : last.caller \in Range(codes[k].used_by)

\* the step is a request whose handler asks is_user_authorized about caller
\* c and gets an answer
AuthCheckStep(c) ==
    /\ last'.caller = c
    /\ last'.fault # "authorized"
    /\ ~check_admin(c)
    /\ last'.op \in GatedOps \cup {"enter_code"}

\* what the request was told by is_user_authorized, read from its answer
ServedAuthorized ==
    IF last'.op = "enter_code" THEN last'.reply = "already_authorized"
    ELSE last'.outcome # "DENIED"

\* C27: is_user_authorized answers from the auth cache when the caller has an
\* unexpired entry, true or false alike, and leaves the cache as it is;
\* otherwise it answers with the persistent flag (false without a record)
\* and stores exactly that answer for the caller with a 60 s lifetime.
C27_CacheFirst ==
    [][\A c \in Callers :
          AuthCheckStep(c)
             => IF c \in DOMAIN auth_cache /\ now < auth_cache[c].expiry
                THEN /\ ServedAuthorized = auth_cache[c].value
                     /\ auth_cache' = auth_cache
                ELSE /\ ServedAuthorized = Authorized(users, c)
                     /\ DOMAIN auth_cache' = DOMAIN auth_cache \cup {c}
                     /\ auth_cache'[c] = [value |-> Authorized(users, c),
                                          expiry |-> now + AuthTTL]
                     /\ \A k \in DOMAIN auth_cache \ {c} :
                           auth_cache'[k] = auth_cache[k]]_vars

\* a request was answered from a cached false although the caller's record
\* is authorized, and the entry is as it was written
C27_Witness ==
    /\ last.op = "list_codes"
    /\ last.outcome = "DENIED"
    /\ Authorized(users, last.caller)
    /\ last.caller \in DOMAIN auth_cache
    /\ ~auth_cache[last.caller].value
    /\ now < auth_cache[last.caller].expiry

\* C28: once /code has answered a caller with code_accepted (which is what
\* sets the caller's authorized flag), none of that caller's gated requests
\* is answered DENIED, however soon after the redemption it arrives.
C28_AcceptedThenNotDenied ==
    [][GateStep /\ Authorized(users, last'.caller)
          => last'.outcome # "DENIED"]_vars

\* C29: a get that hits leaves the cache as it is, so the lifetime of the
\* entry is not extended; an entry appears or changes only by a set, which
\* gives it the expiry now + 60 s; hence the value a get serves (an
\* authorization decision of the gate) was written less than 60 s earlier.
C29_HitKeepsLifetime ==
    /\ [][last'.op = "get" /\ last'.hit
             => /\ last'.key \in DOMAIN auth_cache
                /\ auth_cache' = auth_cache
                /\ LET written == auth_cache[last'.key].expiry - AuthTTL
                   IN written <= now /\ now - written < AuthTTL]_vars
    /\ [][\A k \in DOMAIN auth_cache' :
             k \notin DOMAIN auth_cache \/ auth_cache'[k] # auth_cache[k]
                => /\ last'.op = "set"
                   /\ last'.key = k
                   /\ auth_cache'[k] = [value |-> last'.value,
                                        expiry |-> now + AuthTTL]]_vars

\* a get has just served an entry that was written before the current clock
\* reading, and the entry still expires 60 s after it was written
C29_Witness ==
    /\ last.op = "get"
    /\ last.hit
    /\ last.key \in DOMAIN auth_cache
    /\ auth_cache[last.key].expiry = now + TickShort

\* C30: an authorized caller who sends no more than `limit` gated requests
\* within any interval of 60 s (the paced caller, with limit = max_requests)
\* is never answered RATE_LIMITED.
C30_WithinBudgetNeverLimited ==
    last.op \in GatedOps => last.outcome # "RATE_LIMITED"

\* C31: a gated request that is answered DENIED or RATE_LIMITED, and every
\* request of the administrator, leaves the rate-limit cache as it was, for
\* every identity; an admitted request of another caller sets that caller's
\* counter to its live count plus one and leaves every other identity's
\* entry as it was.
C31_RateFrame ==
    [][last'.op \in GatedOps
          => IF last'.outcome = "PROCEED" /\ last'.caller # ADMIN_TELEGRAM_ID
             THEN /\ DOMAIN rate_limit_cache'
                       = DOMAIN rate_limit_cache \cup {last'.caller}
                  /\ rate_limit_cache'[last'.caller].value
                       = RateCount(last'.caller) + 1
                  /\ \A k \in DOMAIN rate_limit_cache \ {last'.caller} :
                        rate_limit_cache'[k] = rate_limit_cache[k]
             ELSE rate_limit_cache' = rate_limit_cache]_vars

\* a member was answered RATE_LIMITED while the other member holds a counter
\* below the limit
C31_Witness ==
    /\ last.op = "list_codes"
    /\ last.outcome = "RATE_LIMITED"
    /\ \E k \in DOMAIN rate_limit_cache :
          /\ k # last.caller
          /\ rate_limit_cache[k].value < max_requests
          /\ now < rate_limit_cache[k].expiry

\* a handler of caller c is suspended at an await
InFlight(c) == tasks[c].reply + tasks[c].save > 0

\* C32: a gated request that arrives while another handler of the same
\* caller is suspended reads and writes the caller's counter in one step: it
\* is admitted only below the limit and then adds exactly one to the live
\* count; the steps that resume a suspended handler do not touch the
\* counters; hence a live counter never exceeds the limit, that is, no more
\* than `limit` requests are admitted while the entry is live.
C32_NoLostIncrement ==
    /\ [](\A c \in DOMAIN rate_limit_cache :
             rate_limit_cache[c].value \in 1..max_requests)
    /\ [][(/\ GateStep
           /\ InFlight(last'.caller)
           /\ last'.outcome \notin {"DENIED", "RAISED"})
             => IF RateCount(last'.caller) >= max_requests
                THEN last'.outcome = "RATE_LIMITED"
                ELSE /\ last'.outcome = "PROCEED"
                     /\ rate_limit_cache'[last'.caller].value
                          = RateCount(last'.caller) + 1]_vars
    /\ [][last'.op \in {"create_task", "reply_text", "save_conversation"}
             => rate_limit_cache' = rate_limit_cache]_vars

\* /codes of a caller was admitted as the last request under the limit while
\* the caller's handle_message was suspended in its reply
C32_Witness ==
    /\ last.op = "list_codes"
    /\ last.outcome = "PROCEED"
    /\ ~check_admin(last.caller)
    /\ tasks[last.caller].reply > 0
    /\ rate_limit_cache[last.caller].value = max_requests

\* C33: a /code request that is answered with the error reply leaves every
\* code as it was (used_count, used_by and is_active included), and every
\* caller listed in the used_by of a code has an authorized record.
C33_ErrorConsumesNothing ==
    /\ [][EnterCodeStep /\ last'.reply = "error" => codes' = codes]_vars
    /\ [][EnterCodeStep
             => \A k \in DOMAIN codes' :
                   last'.caller \in Range(codes'[k].used_by)
                      => Authorized(users', last'.caller)]_vars

\* C34: a /code request with an argument, from a caller whose record is
\* authorized, is answered already_authorized, leaves every code as it was
\* and records no unauthorized attempt.
C34_AlreadyAuthorized ==
    [][last'.op = "enter_code" /\ last'.arg # ""
          /\ last'.fault = "none"
          /\ Authorized(users, last'.caller)
          => /\ last'.reply = "already_authorized"
             /\ codes' = codes
             /\ attempts' = attempts]_vars

\* the ways of typing a stored token
CaseVariants(k) ==
    IF k = "AB12CD34" THEN {"AB12CD34", "ab12cd34", "Ab12cD34"}
    ELSE IF k = "ZZ99YY88" THEN {"ZZ99YY88", "zz99yy88"}
    ELSE {k}

\* C36: for every stored code, every caller and every upper/lower-case
\* variant of the token, validate_referral_code and use_referral_code return
\* the same result and leave the same store as with the token itself, also
\* when the store fails.
C36_CaseInsensitive ==
    \A k \in DOMAIN codes : \A text \in CaseVariants(k), user_id \in StoreCallers,
                                db_ok \in BOOLEAN :
       /\ validate_referral_code(codes, text, user_id, now, db_ok)
            = validate_referral_code(codes, k, user_id, now, db_ok)
       /\ use_referral_code(codes, text, user_id, db_ok)
            = use_referral_code(codes, k, user_id, db_ok)
       /\ validate_referral_code(codes, k, user_id, now, db_ok).reason
            # "invalid_code"
       /\ db_ok => use_referral_code(codes, k, user_id, db_ok).result

\* a code was just redeemed through its lower-case spelling
C36_Witness ==
    /\ last.op = "use_referral_code"
    /\ last.code = "ab12cd34"
    /\ last.result
    /\ "AB12CD34" \in DOMAIN codes
    /\ last.user_id \in Range(codes["AB12CD34"].used_by)

\* C37: in every reachable state the used_count of every code is the number
\* of entries of its used_by, which are distinct caller identities.
C37_CountIsRedeemers ==
    \A k \in DOMAIN codes :
       /\ codes[k].used_count = Len(codes[k].used_by)
       /\ codes[k].used_count = Cardinality(Range(codes[k].used_by))

\* a second caller has just redeemed a code with two uses
C37_Witness ==
    /\ last.op = "enter_code"
    /\ last.reply = "code_accepted"
    /\ last.arg \in DOMAIN codes
    /\ codes[last.arg].used_count = 2
    /\ codes[last.arg].used_by[2] = last.caller

\* C38: no step removes a referral code from the store, the start of the
\* process (init_db) and /delete_my_data included.
C38_CodesNeverDeleted ==
    [][DOMAIN codes \subseteq DOMAIN codes']_vars

\* C35: the replies to two messages of one caller are sent in the order the
\* messages arrived, also while the handler of the earlier message is still
\* suspended: of two replies of a caller that were sent, the one sent first
\* answers the earlier message.
C35_RepliesInArrivalOrder ==
    \A i \in 1..Len(replied), j \in 1..Len(replied) :
       (/\ i < j
        /\ replied[i].sent /\ replied[j].sent
        /\ replied[i].caller = replied[j].caller)
          => replied[i].update_id < replied[j].update_id

====
